---------------------------- MODULE Spec2Model ----------------------------
(***************************************************************************)
(* TripPlanner demo: option scoring, selection, proposal assembly and      *)
(* ranking, as implemented by the route handlers                           *)
(*   src/app/api/plan/route.ts   (two near-duplicate /api/plan variants)   *)
(*   src/app/api/agent/route.ts  (LLM destinations, "agent")               *)
(*   src/unnamed/part_001        (inspiration destinations, "suggest")     *)
(*   src/unnamed/part_002        (mock-only /api/plan variant)             *)
(*   src/unnamed/part_003        (Amadeus-only /api/plan variant)          *)
(*                                                                         *)
(* Numbers.  The handlers compute in IEEE doubles.  The model computes in  *)
(* integers by scaling:                                                    *)
(*   - scoreTransport is 60000 x the JavaScript value,                     *)
(*   - scoreFlight    is 180000 x the JavaScript value,                    *)
(*   - scoreLodging   is 20000 x the JavaScript value, with the rating in  *)
(*     tenths of a star (rating10),                                        *)
(*   - leg prices of the multi-destination flows are in half euros         *)
(*     (price2 = 2 x price), so that fractional prices with an exact       *)
(*     binary representation are covered and Math.round is exact.          *)
(* Every scaled operation is the exact value of the corresponding          *)
(* floating-point expression on the inputs the model enumerates.           *)
(***************************************************************************)
EXTENDS Integers, Sequences, FiniteSets, TLC

VARIABLES
    \* ---- scoring functions applied to an option and to a changed copy
    sc_fn,          \* which scoring function is applied
    sc_prev,        \* the option before one field was raised
    sc_opt,         \* the option after the change
    sc_changed,     \* the field that was raised ("none" initially)
    sc_prevScore,   \* score of sc_prev
    sc_score,       \* score of sc_opt
    sc_bonus,       \* the review bonus of sc_opt (scoreLodging only)
    \* ---- selection helpers (pickBest, pickBestTransport) and their caller
    pk_op,          \* the selection helper that is called
    pk_env,         \* the inputs of pickBestTransport (modes, provider outcomes)
    pk_in,          \* the option list given to the selection, in its original order
    pk_arr,         \* the caller's array object (reordered by an in-place sort)
    pk_score,       \* the score function, as a map from option to score
    pk_ret,         \* what the helper returned or threw
    pk_pc,          \* "call", "returned", "thrown", "used", "TypeError"
    \* ---- one request to a multi-destination handler
    sg_variant,     \* "agent" (agent/route.ts) or "suggest" (part_001)
    sg_body,        \* the request body
    sg_n,           \* number of candidate destinations (llmPicks / sorted)
    sg_i,           \* candidates the loop has gone through
    proposals,      \* the proposals array
    sg_resp,        \* the response, [status |-> 0] while there is none
    sg_calls,       \* the kinds of external calls issued so far
    sg_pc,          \* "start", "loop", "done"
    \* ---- one request to a single-destination handler
    pl_handler,     \* "plan", "planFlights" or "planMock"
    pl_body,        \* the request body
    pl_env,         \* which API keys are configured
    pl_cached,      \* a valid Amadeus token is in the cache
    pl_calls,       \* the external calls issued so far, in order
    pl_go,          \* what pickBestTransport gave for the outbound leg
    pl_back,        \* what pickBestTransport gave for the return leg
    pl_stay,        \* what the lodging step gave
    pl_resp,        \* the response
    pl_pc,          \* "start", "go", "back", "stay", "respond", "done"
    \* ---- the token cache of one route module and concurrent callers
    tk_variant,     \* which getAmadeusToken: "fractional" or "floored" clock
    tk_time2,       \* the clock, in half seconds
    tk_cache,       \* amadeusToken: <<>> (null) or <<[token, exp2]>>
    tk_callers,     \* the calls of getAmadeusToken, by caller
    tk_requests,    \* requests sent to the token endpoint
    tk_issued,      \* the successful token responses
    \* ---- the calendar output of one successful request
    cal_handler,    \* which POST handler
    cal_body,       \* the request body: [alarm, origin]
    cal_alarm2,     \* alarmMin as the handler passes it to makeICS, half minutes
    cal_events,     \* events
    cal_ics,        \* ics, as the lines of the file
    cal_links,      \* gcalLinks
    cal_pc,         \* "start", "events", "ics", "links", "done"
    \* ---- date and season helpers of the handlers, applied to one input
    dt_op,          \* the computation that is applied
    dt_in,          \* its input
    dt_out,         \* its result, <<>> while there is none
    dt_pc,          \* "call", "returned"
    \* ---- one call of pickBestLodging and the handler's reading of maxNight
    lg_handler,     \* "plan" (plan/route.ts:312-327) or "planHotels" (part_003:387-390)
    lg_body,        \* the request body: [maxNight]
    lg_env,         \* [amadeus]: the Amadeus keys are configured
    lg_answer,      \* what the hotel search answers: [ok, data]
    lg_max,         \* maxPerNight as the handler passes it: <<>> (undefined) or <<n>>
    lg_source,      \* where the list given to pickBest came from
    lg_list,        \* the list given to pickBest
    lg_ret,         \* what pickBestLodging returned or threw
    lg_pc,          \* "start", "search", "pick", "mock", "returned", "thrown"
    \* ---- the candidate loop of a multi-destination handler and its limits
    lm_variant,     \* "agent" (agent/route.ts) or "suggest" (part_001)
    lm_raw,         \* the items of the LLM output or of the inspiration answer
    lm_cands,       \* llmPicks / sorted: the candidates the loop goes through
    lm_i,           \* candidates the loop has gone through
    lm_tried,       \* the candidates tried, with the proposals held at that time
    lm_props,       \* the proposals array
    lm_resp,        \* the response
    lm_pc           \* "start", "loop", "done"

scoreVars == <<sc_fn, sc_prev, sc_opt, sc_changed, sc_prevScore, sc_score, sc_bonus>>
pickVars == <<pk_op, pk_env, pk_in, pk_arr, pk_score, pk_ret, pk_pc>>

suggestVars == <<sg_variant, sg_body, sg_n, sg_i, proposals, sg_resp, sg_calls, sg_pc>>

planVars == <<pl_handler, pl_body, pl_env, pl_cached, pl_calls, pl_go, pl_back, pl_stay, pl_resp, pl_pc>>

tokenVars == <<tk_variant, tk_time2, tk_cache, tk_callers, tk_requests, tk_issued>>

calendarVars == <<cal_handler, cal_body, cal_alarm2, cal_events, cal_ics, cal_links, cal_pc>>

dateVars == <<dt_op, dt_in, dt_out, dt_pc>>

lodgingVars == <<lg_handler, lg_body, lg_env, lg_answer, lg_max, lg_source, lg_list, lg_ret, lg_pc>>

limitVars == <<lm_variant, lm_raw, lm_cands, lm_i, lm_tried, lm_props, lm_resp, lm_pc>>

vars == <<scoreVars, pickVars, suggestVars, planVars, tokenVars, calendarVars, dateVars, lodgingVars, limitVars>>

-----------------------------------------------------------------------------
(* Bounds of the model *)
GridDiv == 2         \* grid step of a capped field: cap / GridDiv
MaxGridK == 3        \* grid points 0 .. MaxGridK of a capped field
MaxTransfers == 3    \* transfer counts 0 .. MaxTransfers (cap is 2)
MaxLen == 3          \* length of the option lists given to pickBest
MaxScore == 2        \* scores 0 .. MaxScore of an arbitrary score function
MaxCands == 3        \* candidate destinations of one request
MaxTime2 == 3        \* the clock runs from 0 to MaxTime2 half seconds
MaxItems == 14       \* items of an inspiration answer or of an LLM output

\* sample inputs
BudgetValues == {0, 400}          \* body.budget, euros
NightsValues == {0, 1, 3}         \* body.nights
Months == {1, 8}                  \* month of the start date
LegPrices2 == { <<158, 258>>, <<159, 259>> }   \* (go, back) in half euros: 79/129, 79.5/129.5
ExpectedPerNight == {50, 85}      \* pick.expected_lodging_per_night_eur
BasePerNight == {200, 320}        \* basePerNightGuess(city)
TrendCounts == {3}                \* news items found by fetchTrend (at most 5)
MaxNightValues == {80}            \* body.maxNight, euros
ExpiresInValues == {31, 32}       \* expires_in of a token response, seconds
AlarmValues2 == {-10, 0, 21, 90}  \* body.alarmMin, half minutes
MaxPerNightValues == {0, 80, 100, 120}   \* body.maxNight, where the lodging is selected
NightsGiven == {-2, 0, 1, 3}      \* body.nights, where only the nights are computed
DayValues == {1, 2, 3, 9}         \* departDate and returnDate, as day numbers
Years == {25, 2024, 2025, 2026, 2027, 2028}   \* YYYY of body.month (25 is "0025")
MonthNumbers == 0..13             \* MM of body.month (two digits: 00 and 13 match the pattern)
\* body.startDate
StartDates == { [y |-> 2025, m |-> 7, d |-> 1], [y |-> 2026, m |-> 2, d |-> 28] }
\* body.origin, as the lines it holds: one without CRLF, one with two
OriginTexts ==
    { << << [lit |-> "Bologna"] >> >>,
      << << [lit |-> "Bologna"] >>, << [lit |-> "END:VEVENT"] >>, << [lit |-> "BEGIN:VEVENT"] >> >> }

\* program constants
ProposalLimit == 5   \* proposals.length >= 5, proposals.slice(0, 5)
Margin == 30         \* amadeusToken.exp - 30 > now
DefaultAlarm == 45   \* alarmMin default, minutes
InspirationLimit == 12   \* .slice(0, 12) of the inspiration items
LlmPickLimit == 5    \* .slice(0, 5) of the LLM picks

-----------------------------------------------------------------------------
(* Math helpers *)
Max(a, b) == IF a >= b THEN a ELSE b
Min(a, b) == IF a <= b THEN a ELSE b

Range(s) == { s[i] : i \in 1..Len(s) }

-----------------------------------------------------------------------------
(* Scoring *)

\* plan/route.ts scoreTransport with the default weights 0.55 / 0.35 / 0.10:
\*   60000 * (0.55*max(0,1-price/300) + 0.35*max(0,1-durationMin/600)
\*            + 0.10*max(0,1-transfers/2))
\* opt.transfers is the value of (opt.transfers || 0).
scoreTransportNoClamp(opt) ==
    110 * (300 - opt.price) + 35 * (600 - opt.durationMin) + 3000 * (2 - opt.transfers)

scoreTransport(opt) ==
    LET sPrice == Max(0, 300 - opt.price)              \* 300 * sPrice
        sTime == Max(0, 600 - opt.durationMin)         \* 600 * sTime
        sTransfers == Max(0, 2 - opt.transfers)        \* 2 * sTransfers
    IN  110 * sPrice + 35 * sTime + 3000 * sTransfers

\* agent/route.ts scoreFlight: caps 2000 / 900 / 2, weights 0.6 / 0.3 / 0.1:
\*   180000 * (0.6*max(0,1-price/2000) + 0.3*max(0,1-durationMin/900)
\*             + 0.1*max(0,1-transfers/2))
scoreFlight(price, durationMin, transfers) ==
    LET sPrice == Max(0, 2000 - price)
        sTime == Max(0, 900 - durationMin)
        sTransfers == Max(0, 2 - transfers)
    IN  54 * sPrice + 60 * sTime + 9000 * sTransfers

\* reviewsBonus of scoreLodging: 20000 * min(0.1, (reviews/2000)*0.1)
reviewsBonusUncapped(opt) == opt.reviews

reviewsBonus(opt) == Min(2000, opt.reviews)

\* plan/route.ts scoreLodging with the default weights 0.7 / 0.3:
\*   20000 * (0.7*rating/5 + 0.3*max(0,1-pricePerNight/200) + reviewsBonus)
scoreLodging(opt) ==
    LET ratingScore == opt.rating10                      \* 50 * ratingScore
        priceScore == Max(0, 200 - opt.pricePerNight)    \* 200 * priceScore
    IN  280 * ratingScore + 30 * priceScore + reviewsBonus(opt)

-----------------------------------------------------------------------------
(* Specification SpecScore: a scoring function applied to an option and to *)
(* the same option with one field raised.                                  *)

ScoreFns == {"scoreTransport", "scoreFlight", "scoreLodging"}

priceCapOf(fn) ==
    CASE fn = "scoreTransport" -> 300
      [] fn = "scoreFlight" -> 2000
      [] fn = "scoreLodging" -> 200

timeCapOf(fn) == IF fn = "scoreFlight" THEN 900 ELSE 600

\* values below, at and above a cap
Grid(cap) == { (k * cap) \div GridDiv : k \in 0..MaxGridK }

TransportOptions(fn) ==
    [price: Grid(priceCapOf(fn)), durationMin: Grid(timeCapOf(fn)), transfers: 0..MaxTransfers]

LodgingOptions ==
    [pricePerNight: Grid(200), rating10: { r \in Grid(50) : r <= 50 }, reviews: Grid(2000)]

Score(fn, opt) ==
    CASE fn = "scoreTransport" -> scoreTransport(opt)
      [] fn = "scoreFlight" -> scoreFlight(opt.price, opt.durationMin, opt.transfers)
      [] fn = "scoreLodging" -> scoreLodging(opt)

BonusOf(fn, opt) == IF fn = "scoreLodging" THEN reviewsBonus(opt) ELSE 0

ScoreIdle ==
    /\ sc_fn = "none"
    /\ sc_prev = <<>>
    /\ sc_opt = <<>>
    /\ sc_changed = "none"
    /\ sc_prevScore = 0
    /\ sc_score = 0
    /\ sc_bonus = 0

ScoreStart ==
    /\ sc_fn \in ScoreFns
    /\ sc_opt \in (IF sc_fn = "scoreLodging" THEN LodgingOptions ELSE TransportOptions(sc_fn))
    /\ sc_prev = sc_opt
    /\ sc_changed = "none"
    /\ sc_score = Score(sc_fn, sc_opt)
    /\ sc_prevScore = sc_score
    /\ sc_bonus = BonusOf(sc_fn, sc_opt)

Rescore(field, opt) ==
    /\ sc_prev' = sc_opt
    /\ sc_opt' = opt
    /\ sc_changed' = field
    /\ sc_prevScore' = Score(sc_fn, sc_opt)
    /\ sc_score' = Score(sc_fn, opt)
    /\ sc_bonus' = BonusOf(sc_fn, opt)
    /\ UNCHANGED sc_fn
    /\ UNCHANGED <<pickVars, suggestVars, planVars, tokenVars, calendarVars, dateVars, lodgingVars, limitVars>>

RaisePrice ==
    /\ sc_fn # "scoreLodging"
    /\ \E p \in Grid(priceCapOf(sc_fn)) :
          /\ p > sc_opt.price
          /\ Rescore("price", [sc_opt EXCEPT !.price = p])

RaiseDuration ==
    /\ sc_fn # "scoreLodging"
    /\ \E d \in Grid(timeCapOf(sc_fn)) :
          /\ d > sc_opt.durationMin
          /\ Rescore("durationMin", [sc_opt EXCEPT !.durationMin = d])

RaiseTransfers ==
    /\ sc_fn # "scoreLodging"
    /\ \E t \in 0..MaxTransfers :
          /\ t > sc_opt.transfers
          /\ Rescore("transfers", [sc_opt EXCEPT !.transfers = t])

RaisePricePerNight ==
    /\ sc_fn = "scoreLodging"
    /\ \E p \in Grid(200) :
          /\ p > sc_opt.pricePerNight
          /\ Rescore("pricePerNight", [sc_opt EXCEPT !.pricePerNight = p])

RaiseRating ==
    /\ sc_fn = "scoreLodging"
    /\ \E r \in Grid(50) :
          /\ r <= 50
          /\ r > sc_opt.rating10
          /\ Rescore("rating", [sc_opt EXCEPT !.rating10 = r])

RaiseReviews ==
    /\ sc_fn = "scoreLodging"
    /\ \E n \in Grid(2000) :
          /\ n > sc_opt.reviews
          /\ Rescore("reviews", [sc_opt EXCEPT !.reviews = n])

ScoreNext ==
    \/ RaisePrice
    \/ RaiseDuration
    \/ RaiseTransfers
    \/ RaisePricePerNight
    \/ RaiseRating
    \/ RaiseReviews


-----------------------------------------------------------------------------
(* C9: for transport options with non-negative price, duration and         *)
(* transfer count, scoreTransport and scoreFlight do not increase when     *)
(* the price, the duration or the transfer count is raised (the other two  *)
(* held fixed), and the score is never negative.                           *)
C9_TransportScoreMonotone ==
    sc_fn \in {"scoreTransport", "scoreFlight"} =>
        /\ sc_score >= 0
        /\ sc_prevScore >= 0
        /\ sc_changed \in {"price", "durationMin", "transfers"} => sc_score <= sc_prevScore

\* a raise across the cap: the price went from below the cap to above it
C9_Witness ==
    /\ sc_fn \in {"scoreTransport", "scoreFlight"}
    /\ sc_changed = "price"
    /\ sc_prev.price < priceCapOf(sc_fn)
    /\ sc_opt.price > priceCapOf(sc_fn)
    /\ sc_score < sc_prevScore

(* C10: scoreLodging does not decrease when the rating is raised, does not *)
(* increase when the price per night is raised (others held fixed), and    *)
(* the review bonus never exceeds 0.1 (2000 in the model's scale).         *)
C10_LodgingScoreMonotone ==
    sc_fn = "scoreLodging" =>
        /\ sc_changed = "rating" => sc_score >= sc_prevScore
        /\ sc_changed = "pricePerNight" => sc_score <= sc_prevScore
        /\ sc_bonus <= 2000

\* the review count was raised above 2000 and the bonus stayed at the cap
C10_Witness ==
    /\ sc_fn = "scoreLodging"
    /\ sc_changed = "reviews"
    /\ sc_opt.reviews > 2000
    /\ sc_bonus = 2000


(* C24: in scoreTransport and scoreLodging a component at or above its    *)
(* cap contributes zero: an option whose price (duration, transfers,       *)
(* price per night) is raised from the cap, or from above it, keeps the    *)
(* score it has with that field at the cap.                                *)
C24_AtOrAboveCapScoresAsAtCap ==
    sc_fn \in {"scoreTransport", "scoreLodging"} =>
        /\ (sc_changed = "price" /\ sc_prev.price >= priceCapOf(sc_fn)) => sc_score = sc_prevScore
        /\ (sc_changed = "durationMin" /\ sc_prev.durationMin >= timeCapOf(sc_fn)) => sc_score = sc_prevScore
        /\ (sc_changed = "transfers" /\ sc_prev.transfers >= 2) => sc_score = sc_prevScore
        /\ (sc_changed = "pricePerNight" /\ sc_prev.pricePerNight >= priceCapOf(sc_fn)) => sc_score = sc_prevScore

\* a transport price raised from the cap of 300 to above it, with the other
\* two components still contributing
C24_Witness ==
    /\ sc_fn = "scoreTransport"
    /\ sc_changed = "price"
    /\ sc_prev.price = 300
    /\ sc_opt.price > 300
    /\ sc_score = sc_prevScore
    /\ sc_score > 0

-----------------------------------------------------------------------------
(* Selection *)

\* results of a call
Undefined == [kind |-> "undefined"]
Value(x) == [kind |-> "value", val |-> x]
Thrown(msg) == [kind |-> "throw", error |-> msg]
Pending == [kind |-> "pending"]

\* Array.prototype.sort(compareFn) on an array whose compareFn is given as a
\* map from pairs <<a, b>> to the number compareFn(a, b).  The sort of
\* ECMAScript 2019 (Node 11+) is stable; with a consistent comparator every
\* stable algorithm returns the same array, computed here by insertion: x
\* moves left past every element e with compareFn(e, x) > 0.
insertSorted(sorted, x, cmp) ==
    LET n == Len(sorted)
        k == CHOOSE j \in 0..n :
                /\ (j = 0 \/ cmp[<<sorted[j], x>>] <= 0)
                /\ \A i \in (j + 1)..n : cmp[<<sorted[i], x>>] > 0
    IN  SubSeq(sorted, 1, k) \o <<x>> \o SubSeq(sorted, k + 1, n)

arraySort(arr, cmp) ==
    LET S[i \in 0..Len(arr)] ==
            IF i = 0 THEN <<>> ELSE insertSorted(S[i - 1], arr[i], cmp)
    IN  S[Len(arr)]

\* arr[0]: undefined on an empty array
elementZero(arr) == IF arr = <<>> THEN Undefined ELSE Value(arr[1])

\* (a, b) => score(b) - score(a)
scoreDescending(arr, score) ==
    [p \in Range(arr) \X Range(arr) |-> score[p[2]] - score[p[1]]]

\* (a, b) => score(a) - score(b)
scoreAscending(arr, score) ==
    [p \in Range(arr) \X Range(arr) |-> score[p[1]] - score[p[2]]]

\* the array after arr.sort((a, b) => score(b) - score(a))
sortedByScore(arr, score) == arraySort(arr, scoreDescending(arr, score))

\* pickBest with the comparator reversed: returns a lowest-scoring option
pickBestReversed(arr, score) ==
    elementZero(arraySort(arr, scoreAscending(arr, score)))

\* pickBest written as "sort ascending, take the last": a maximum, but the
\* last of the options that share it
pickBestLastOfTies(arr, score) ==
    LET asc == arraySort(arr, scoreAscending(arr, score))
    IN  IF asc = <<>> THEN Undefined ELSE Value(asc[Len(asc)])

\* pickBest(arr, score): the value returned by the three variants
\*   plan/route.ts:259      arr.sort(...)[0]          (sorts arr in place)
\*   plan/route.ts:443-445  arr.slice().sort(...)[0]
\*   part_003:91-93         arr.slice().sort(...)[0]
pickBest(arr, score) == elementZero(sortedByScore(arr, score))

\* the score function as a map over the options of a list
scoreMap(arr, fn) ==
    [o \in Range(arr) |-> IF fn = "scoreLodging" THEN scoreLodging(o) ELSE scoreTransport(o)]

\* ---- option data of pickBestTransport -------------------------------------
\* The fields read by scoring and selection; dep, arr and notes are not read.
Modes == {"flight", "train", "drive"}

\* plan/route.ts mockTrains
mockTrains ==
    << [mode |-> "train", provider |-> "Frecciarossa", price |-> 59, durationMin |-> 185, transfers |-> 0],
       [mode |-> "train", provider |-> "Italo", price |-> 49, durationMin |-> 240, transfers |-> 0] >>

\* flight offers the provider may return; "AZ" scores exactly as Frecciarossa
FlightOffers ==
    { [mode |-> "flight", provider |-> "FR", price |-> 79, durationMin |-> 145, transfers |-> 0],
      [mode |-> "flight", provider |-> "LH", price |-> 129, durationMin |-> 220, transfers |-> 1],
      [mode |-> "flight", provider |-> "AZ", price |-> 59, durationMin |-> 185, transfers |-> 0] }

\* a set of options as an array, in some fixed order
RECURSIVE SetToSeq(_)
SetToSeq(S) ==
    IF S = {} THEN <<>>
    ELSE LET x == CHOOSE y \in S : TRUE IN <<x>> \o SetToSeq(S \ {x})

\* amadeusFlights: throws when no offer is usable, else the offers sorted by
\* scoreTransport, best first (plan/route.ts:154-156)
amadeusFlights(offers) ==
    IF offers = {} THEN Thrown("No flights found")
    ELSE LET arr == SetToSeq(offers)
         IN  Value(sortedByScore(arr, scoreMap(arr, "scoreTransport")))

\* what the flight step of pickBestTransport can meet
FlightOutcomes ==
    { [configured |-> FALSE, result |-> Thrown("not called")] }
    \cup { [configured |-> TRUE, result |-> Thrown("Flight search failed")] }
    \cup { [configured |-> TRUE, result |-> amadeusFlights(S)] : S \in SUBSET FlightOffers }

\* orsDrive: one estimated option (price = round(km * 0.2)), or a throw
DriveOffer ==
    [mode |-> "drive", provider |-> "Auto (stima ORS)", price |-> 75, durationMin |-> 225, transfers |-> 0]

DriveOutcomes ==
    { [configured |-> FALSE, result |-> Thrown("not called")],
      [configured |-> TRUE, result |-> Thrown("Geocode failed")],
      [configured |-> TRUE, result |-> Value(<<DriveOffer>>)] }

\* the options one try-block of pickBestTransport pushes to the list
pushed(requested, outcome) ==
    IF requested /\ outcome.configured /\ outcome.result.kind = "value"
    THEN outcome.result.val ELSE <<>>

\* the list assembled without looking at the requested modes
transportListAnyMode(env) ==
    pushed(TRUE, env.flight) \o mockTrains \o pushed(TRUE, env.drive)

\* plan/route.ts pickBestTransport (lines 289-310): the list it assembles
transportList(env) ==
    pushed("flight" \in env.modes, env.flight)
    \o (IF "train" \in env.modes THEN mockTrains ELSE <<>>)
    \o pushed("drive" \in env.modes, env.drive)

\* the mock option lists of part_002 (mockFlights, mockTrains, mockDrive are
\* called there and defined in the part of that file that is not in src/)
mockOptions(mode) ==
    CASE mode = "flight" ->
            << [mode |-> "flight", provider |-> "FR", price |-> 79, durationMin |-> 145, transfers |-> 0],
               [mode |-> "flight", provider |-> "LH", price |-> 129, durationMin |-> 220, transfers |-> 1] >>
      [] mode = "train" -> mockTrains
      [] mode = "drive" -> <<DriveOffer>>

\* part_002 pickBestTransport (lines 13-19): opts before the sort
mockTransportList(modes) ==
    (IF "flight" \in modes THEN mockOptions("flight") ELSE <<>>)
    \o (IF "train" \in modes THEN mockOptions("train") ELSE <<>>)
    \o (IF "drive" \in modes THEN mockOptions("drive") ELSE <<>>)

-----------------------------------------------------------------------------
(* Specification SpecSelect: one call of a selection helper, and the       *)
(* caller's use of what it returned.                                       *)

Elements == [id: 1..MaxLen]

\* arrays of distinct objects
ArraysOf(S) ==
    UNION { { a \in [1..n -> S] : \A i, j \in 1..n : i # j => a[i] # a[j] } : n \in 1..MaxLen }

NoEnv == [modes |-> {}, flight |-> <<>>, drive |-> <<>>]

PickIdle ==
    /\ pk_op = "none"
    /\ pk_env = NoEnv
    /\ pk_in = <<>>
    /\ pk_arr = <<>>
    /\ pk_score = <<>>
    /\ pk_ret = Pending
    /\ pk_pc = "idle"

\* pickBest is only ever called with a non-empty list (its callers throw
\* first); the two pickBestTransport variants build their own list.
PickStart ==
    /\ pk_op \in {"pickBest", "pickBestTransport", "pickBestTransportMock"}
    /\ pk_env = NoEnv
    /\ IF pk_op = "pickBest"
       THEN /\ pk_in \in ArraysOf(Elements)
            /\ pk_score \in [Elements -> 0..MaxScore]
       ELSE /\ pk_in = <<>>
            /\ pk_score = <<>>
    /\ pk_arr = pk_in
    /\ pk_ret = Pending
    /\ pk_pc = "call"

\* plan/route.ts:259
PickBestInPlace ==
    /\ pk_pc = "call"
    /\ pk_op = "pickBest"
    /\ pk_ret' = pickBest(pk_arr, pk_score)
    /\ pk_arr' = sortedByScore(pk_arr, pk_score)
    /\ pk_pc' = "returned"
    /\ UNCHANGED <<pk_op, pk_env, pk_in, pk_score>>
    /\ UNCHANGED <<scoreVars, suggestVars, planVars, tokenVars, calendarVars, dateVars, lodgingVars, limitVars>>

\* plan/route.ts:443-445 and part_003:91-93
PickBestOfCopy ==
    /\ pk_pc = "call"
    /\ pk_op = "pickBest"
    /\ pk_ret' = pickBest(pk_arr, pk_score)
    /\ pk_pc' = "returned"
    /\ UNCHANGED <<pk_op, pk_env, pk_in, pk_arr, pk_score>>
    /\ UNCHANGED <<scoreVars, suggestVars, planVars, tokenVars, calendarVars, dateVars, lodgingVars, limitVars>>

\* plan/route.ts:289-310
PickBestTransport ==
    /\ pk_pc = "call"
    /\ pk_op = "pickBestTransport"
    /\ \E modes \in SUBSET Modes, fl \in FlightOutcomes, dr \in DriveOutcomes :
          LET env == [modes |-> modes, flight |-> fl, drive |-> dr]
              list == transportList(env)
              score == scoreMap(list, "scoreTransport")
          IN  /\ pk_env' = env
              /\ pk_in' = list
              /\ pk_score' = score
              /\ IF list = <<>>
                 THEN /\ pk_ret' = Thrown("Nessuna opzione di trasporto disponibile")
                      /\ pk_arr' = list
                      /\ pk_pc' = "thrown"
                 ELSE /\ pk_ret' = pickBest(list, score)
                      /\ pk_arr' = sortedByScore(list, score)
                      /\ pk_pc' = "returned"
    /\ UNCHANGED pk_op
    /\ UNCHANGED <<scoreVars, suggestVars, planVars, tokenVars, calendarVars, dateVars, lodgingVars, limitVars>>

\* part_002:13-19
PickBestTransportMock ==
    /\ pk_pc = "call"
    /\ pk_op = "pickBestTransportMock"
    /\ \E modes \in SUBSET Modes :
          LET opts == mockTransportList(modes)
              score == scoreMap(opts, "scoreTransport")
          IN  /\ pk_env' = [NoEnv EXCEPT !.modes = modes]
              /\ pk_in' = opts
              /\ pk_score' = score
              /\ pk_arr' = sortedByScore(opts, score)
              /\ pk_ret' = elementZero(sortedByScore(opts, score))
    /\ pk_pc' = "returned"
    /\ UNCHANGED pk_op
    /\ UNCHANGED <<scoreVars, suggestVars, planVars, tokenVars, calendarVars, dateVars, lodgingVars, limitVars>>

\* the caller reads fields of the returned option (go.provider, go.dep, ...:
\* plan/route.ts:356, part_002:56); on undefined that is a TypeError
UseSelection ==
    /\ pk_pc = "returned"
    /\ pk_pc' = IF pk_ret.kind = "undefined" THEN "TypeError" ELSE "used"
    /\ UNCHANGED <<pk_op, pk_env, pk_in, pk_arr, pk_score, pk_ret>>
    /\ UNCHANGED <<scoreVars, suggestVars, planVars, tokenVars, calendarVars, dateVars, lodgingVars, limitVars>>

SelectNext ==
    \/ PickBestInPlace
    \/ PickBestOfCopy
    \/ PickBestTransport
    \/ PickBestTransportMock
    \/ UseSelection

-----------------------------------------------------------------------------
(* C1: over a non-empty list, pickBest returns an element of the list      *)
(* whose score is greater than or equal to the score of every element.     *)
C1_PickBestIsMaximum ==
    (pk_pc \in {"returned", "used"} /\ pk_op \in {"pickBest", "pickBestTransport"}) =>
        /\ pk_ret.kind = "value"
        /\ pk_ret.val \in Range(pk_in)
        /\ \A x \in Range(pk_in) : pk_score[pk_ret.val] >= pk_score[x]

\* a list of at least two options with different scores was selected from
C1_Witness ==
    /\ pk_pc = "returned"
    /\ pk_op = "pickBest"
    /\ Len(pk_in) >= 2
    /\ \E x \in Range(pk_in) : pk_score[x] < pk_score[pk_ret.val]
    /\ pk_ret.val # pk_in[1]

C6_PickBestFirstOfTies ==
    (pk_pc \in {"returned", "used"} /\ pk_op \in {"pickBest", "pickBestTransport"}) =>
        \E i \in 1..Len(pk_in) :
            /\ pk_in[i] = pk_ret.val
            /\ \A j \in 1..Len(pk_in) : pk_score[pk_in[j]] <= pk_score[pk_in[i]]
            /\ \A j \in 1..(i - 1) : pk_score[pk_in[j]] < pk_score[pk_in[i]]

\* two options share the maximum and neither is at the head of the list
C6_Witness ==
    /\ pk_pc = "returned"
    /\ pk_op = "pickBest"
    /\ \E i, j \in 1..Len(pk_in) :
          /\ 1 < i
          /\ i < j
          /\ pk_in[i] = pk_ret.val
          /\ pk_score[pk_in[j]] = pk_score[pk_in[i]]

(* C27: the leg returned by pickBestTransport has a mode that was          *)
(* requested for that call; a mode that was not requested, or whose        *)
(* provider is not configured, never gives the selected leg; and a failure *)
(* of the flight or drive provider leaves the options of the other         *)
(* requested modes in the selection.                                       *)
C27_SelectedModeWasRequested ==
    (pk_op \in {"pickBestTransport", "pickBestTransportMock"} /\ pk_pc \in {"returned", "used", "thrown"}) =>
        /\ pk_ret.kind = "value" =>
               /\ pk_ret.val.mode \in pk_env.modes
               /\ pk_op = "pickBestTransport" =>
                      /\ pk_ret.val.mode = "flight" => pk_env.flight.configured
                      /\ pk_ret.val.mode = "drive" => pk_env.drive.configured
        /\ pk_op = "pickBestTransport" =>
               /\ "train" \in pk_env.modes => Range(mockTrains) \subseteq Range(pk_in)
               /\ ("drive" \in pk_env.modes /\ pk_env.drive.configured /\ pk_env.drive.result.kind = "value")
                      => Range(pk_env.drive.result.val) \subseteq Range(pk_in)
               /\ ("flight" \in pk_env.modes /\ pk_env.flight.configured /\ pk_env.flight.result.kind = "value")
                      => Range(pk_env.flight.result.val) \subseteq Range(pk_in)
               /\ \A o \in Range(pk_in) : o.mode \in pk_env.modes

\* flights and trains were requested, the flight search failed, the drive
\* provider is configured and answers but driving was not requested: a
\* train is returned
C27_Witness ==
    /\ pk_op = "pickBestTransport"
    /\ pk_pc = "returned"
    /\ pk_env.modes = {"flight", "train"}
    /\ pk_env.flight.configured
    /\ pk_env.flight.result.kind = "throw"
    /\ pk_env.drive.configured
    /\ pk_env.drive.result.kind = "value"
    /\ pk_ret.val.mode = "train"

(* C30: pickBest leaves the list passed to it unchanged: after the call the *)
(* caller's list holds the same elements in the same order, for every      *)
(* pickBest variant.                                                       *)
C30_PickBestKeepsList ==
    (pk_op = "pickBest" /\ pk_pc \in {"returned", "used"}) => pk_arr = pk_in

-----------------------------------------------------------------------------
(* Proposal assembly and ranking: the POST handlers of agent/route.ts      *)
(* ("agent") and of part_001 ("suggest")                                   *)

\* Math.round of a number given in half units (round half up)
roundHalves(h) == (h + 1) \div 2

\* Math.round of a number given in tenths
roundTenths(t) == (t + 5) \div 10

\* const budget = body.budget ? Number(body.budget) : undefined
\* (<<>> is undefined / absent, <<n>> the number n)
budgetOf(body) ==
    IF body.budget = <<>> \/ body.budget[1] = 0 THEN <<>> ELSE body.budget

\* the nights read without the lower limit of 1
nightsOfUnclamped(variant, body) ==
    LET dflt == IF variant = "agent" THEN 14 ELSE 7
    IN  IF body.nights = <<>> \/ body.nights[1] = 0 THEN dflt ELSE body.nights[1]

\* const nights = Math.max(1, Number(body.nights || 14))   (7 in part_001)
nightsOf(variant, body) ==
    LET dflt == IF variant = "agent" THEN 14 ELSE 7
    IN  IF body.nights = <<>> \/ body.nights[1] = 0 THEN Max(1, dflt) ELSE Max(1, body.nights[1])

\* a seasonal factor that treats July as August
seasonalFactorLongPeak(month) ==
    IF month = 8 \/ month = 7 THEN 10 ELSE IF month = 6 \/ month = 9 THEN 8 ELSE 6

\* seasonalFactor(month), in tenths
seasonalFactor(month) ==
    IF month = 8 THEN 10 ELSE IF month = 7 THEN 9 ELSE IF month = 6 \/ month = 9 THEN 8 ELSE 6

\* the nightly estimate:
\*   agent    Math.max(60, Math.round(pick.expected_lodging_per_night_eur * seasonalFactor(month)))
\*   suggest  Math.round(basePerNightGuess(cityName) * seasonalFactor(month))
perNightOf(variant, est, month) ==
    IF variant = "agent"
    THEN Max(60, roundTenths(est * seasonalFactor(month)))
    ELSE roundTenths(est * seasonalFactor(month))

\* each leg rounded on its own (what the handlers do not do)
flightTotalPerLeg(go2, back2) == roundHalves(go2) + roundHalves(back2)

\* const flightTotal = Math.round(go.price + back.price), prices in half euros
flightTotalOf(go2, back2) == roundHalves(go2 + back2)

\* const underBudget = budget !== undefined ? total <= budget : true
underBudgetOf(budget, total) == IF budget # <<>> THEN total <= budget[1] ELSE TRUE

\* the Proposal pushed for one candidate (the fields that assembly and
\* ranking read or write; id stands for randomUUID() and is the position of
\* the candidate in the upstream destination list)
assemble(variant, body, id, c) ==
    LET nights == nightsOf(variant, body)
        budget == budgetOf(body)
        flightTotal == flightTotalOf(c.go2, c.back2)
        perNight == perNightOf(variant, c.est, body.date[1])
        lodgingTotal == perNight * nights
        total == flightTotal + lodgingTotal
    IN  [ id |-> id,
          go2 |-> c.go2,
          back2 |-> c.back2,
          flightTotal |-> flightTotal,
          nights |-> nights,
          estPerNight |-> perNight,
          estTotal |-> lodgingTotal,
          totalEstimate |-> total,
          underBudget |-> underBudgetOf(budget, total),
          budget |-> budget,
          web |-> IF variant = "agent" THEN <<>> ELSE c.web ]

\* a.web?.trendScore ?? 0, in fifths (trendScore = min(1, items.length / 5))
trendOf(p) == IF p.web = <<>> THEN 0 ELSE Min(5, p.web[1])

\* agent/route.ts:397-401
cmpAgent(a, b) ==
    IF a.underBudget /\ ~b.underBudget THEN -1
    ELSE IF ~a.underBudget /\ b.underBudget THEN 1
    ELSE a.totalEstimate - b.totalEstimate

\* the suggest comparator without its two budget lines
cmpSuggestNoBudget(a, b) ==
    IF trendOf(b) # trendOf(a) THEN trendOf(b) - trendOf(a)
    ELSE a.totalEstimate - b.totalEstimate

\* the suggest comparator without its trend lines
cmpSuggestNoTrend(a, b) == cmpAgent(a, b)

\* the suggest comparator answering "a after b" on an exact tie
cmpSuggestTieAfter(a, b) ==
    IF a.underBudget /\ ~b.underBudget THEN -1
    ELSE IF ~a.underBudget /\ b.underBudget THEN 1
    ELSE IF trendOf(b) # trendOf(a) THEN trendOf(b) - trendOf(a)
    ELSE IF a.totalEstimate # b.totalEstimate THEN a.totalEstimate - b.totalEstimate
    ELSE 1

\* part_001:416-422
cmpSuggest(a, b) ==
    IF a.underBudget /\ ~b.underBudget THEN -1
    ELSE IF ~a.underBudget /\ b.underBudget THEN 1
    ELSE IF trendOf(b) # trendOf(a) THEN trendOf(b) - trendOf(a)
    ELSE a.totalEstimate - b.totalEstimate

\* proposals.sort(comparator)
rankProposals(variant, arr) ==
    arraySort(arr, [p \in Range(arr) \X Range(arr) |->
                      IF variant = "agent" THEN cmpAgent(p[1], p[2]) ELSE cmpSuggest(p[1], p[2])])

\* arr.slice(0, n)
slice0(arr, n) == SubSeq(arr, 1, Min(n, Len(arr)))

-----------------------------------------------------------------------------
(* Specification SpecSuggest: one request to a multi-destination handler   *)

Variants == {"agent", "suggest"}

Optional(S) == {<<>>} \cup { <<x>> : x \in S }

\* body.budget, body.nights, and the month of the start date (<<>>: neither
\* month nor startDate in the request)
Bodies ==
    [ budget: Optional(BudgetValues),
      nights: Optional(NightsValues),
      date: Optional(Months) ]

\* what the lookups of one candidate destination can give: a throw, a miss
\* (no IATA code, or an empty flight list), or the best outbound and return
\* leg (goList[0], backList[0]), the nightly base estimate and the web signal
CandidateOutcomes(variant) ==
    { [kind |-> "throw"], [kind |-> "miss"] }
    \cup { [kind |-> "found", go2 |-> l[1], back2 |-> l[2], est |-> e, web |-> w] :
             l \in LegPrices2,
             e \in (IF variant = "agent" THEN ExpectedPerNight ELSE BasePerNight),
             w \in (IF variant = "agent" THEN {<<>>} ELSE Optional(TrendCounts)) }

NoResponse == [status |-> 0]

SuggestIdle ==
    /\ sg_variant = "none"
    /\ sg_body = <<>>
    /\ sg_n = 0
    /\ sg_i = 0
    /\ proposals = <<>>
    /\ sg_resp = NoResponse
    /\ sg_calls = {}
    /\ sg_pc = "idle"

SuggestStart ==
    /\ sg_variant \in Variants
    /\ sg_body \in Bodies
    /\ sg_n = 0
    /\ sg_i = 0
    /\ proposals = <<>>
    /\ sg_resp = NoResponse
    /\ sg_calls = {}
    /\ sg_pc = "start"

\* the kinds of external calls issued before the candidate loop:
\*   "llm"      llmPickDestinations (agent/route.ts:332), before the origin is resolved
\*   "amadeus"  the token request and the location lookups of resolveIATA when
\*              the origin is not a code or a known alias (agent/route.ts:335,
\*              part_001:327), and the inspiration search (part_001:334)
callsBeforeLoop(variant, lookedUp) ==
    (IF variant = "agent" THEN {"llm"} ELSE {})
    \cup (IF lookedUp THEN {"amadeus"} ELSE {})

\* everything before the candidate loop: body parsing, the start date, the
\* origin's IATA code and the list of candidate destinations
\*   (agent/route.ts:302-338, part_001:296-342)
Prepare ==
    /\ sg_pc = "start"
    /\ IF sg_body.date = <<>>
       THEN \* throw new Error('Fornisci month ...'), caught by the handler
            /\ sg_resp' = [status |-> 500]
            /\ sg_pc' = "done"
            /\ UNCHANGED <<sg_n, sg_calls>>
       ELSE \E outcome \in {"candidates", "originUnknown", "lookupThrows"} :
               CASE outcome = "originUnknown" ->
                       \* resolveIATA gives null only after its lookups
                       /\ sg_resp' = [status |-> 400]
                       /\ sg_pc' = "done"
                       /\ sg_calls' = callsBeforeLoop(sg_variant, TRUE)
                       /\ UNCHANGED sg_n
                 [] outcome = "lookupThrows" ->
                       /\ sg_resp' = [status |-> 500]
                       /\ sg_pc' = "done"
                       /\ sg_calls' \in {callsBeforeLoop(sg_variant, TRUE), callsBeforeLoop(sg_variant, FALSE)} \ {{}}
                       /\ UNCHANGED sg_n
                 [] outcome = "candidates" ->
                       \* llmPickDestinations returns 1..5 picks; the
                       \* inspiration list may be empty
                       /\ sg_n' \in (IF sg_variant = "agent" THEN 1..MaxCands ELSE 0..MaxCands)
                       /\ sg_pc' = "loop"
                       /\ sg_calls' \in {callsBeforeLoop(sg_variant, TRUE),
                                        callsBeforeLoop(sg_variant, sg_variant = "suggest")}
                       /\ UNCHANGED sg_resp
    /\ UNCHANGED <<sg_variant, sg_body, sg_i, proposals>>
    /\ UNCHANGED <<scoreVars, pickVars, planVars, tokenVars, calendarVars, dateVars, lodgingVars, limitVars>>

\* the kinds of external calls of one iteration: every iteration starts
\* with an Amadeus lookup or flight search (agent/route.ts:340,
\* part_001:346-352); the news search of fetchTrend is not recorded
candidateCalls == {"amadeus"}

\* one iteration of the candidate loop
\*   (agent/route.ts:339-390, part_001:344-409)
Candidate ==
    /\ sg_pc = "loop"
    /\ sg_i < sg_n
    /\ ~(sg_variant = "suggest" /\ Len(proposals) >= ProposalLimit)
    /\ \E c \in CandidateOutcomes(sg_variant) :
          /\ sg_calls' = sg_calls \cup candidateCalls
          /\ CASE c.kind = "found" ->
                  /\ proposals' = Append(proposals, assemble(sg_variant, sg_body, sg_i + 1, c))
                  /\ sg_i' = sg_i + 1
                  /\ UNCHANGED <<sg_pc, sg_resp>>
            [] c.kind = "miss" ->
                  /\ sg_i' = sg_i + 1
                  /\ UNCHANGED <<proposals, sg_pc, sg_resp>>
            [] c.kind = "throw" ->
                  IF sg_variant = "suggest"
                  THEN \* catch { continue }
                       /\ sg_i' = sg_i + 1
                       /\ UNCHANGED <<proposals, sg_pc, sg_resp>>
                  ELSE \* no try inside the loop: the handler's catch answers
                       /\ sg_resp' = [status |-> 500]
                       /\ sg_pc' = "done"
                       /\ UNCHANGED <<proposals, sg_i>>
    /\ UNCHANGED <<sg_variant, sg_body, sg_n>>
    /\ UNCHANGED <<scoreVars, pickVars, planVars, tokenVars, calendarVars, dateVars, lodgingVars, limitVars>>

\* after the loop: 404 without proposals, else sort in place and answer
\* with the first five   (agent/route.ts:392-403, part_001:411-424)
Respond ==
    /\ sg_pc = "loop"
    /\ \/ sg_i = sg_n
       \/ (sg_variant = "suggest" /\ Len(proposals) >= ProposalLimit)
    /\ IF proposals = <<>>
       THEN /\ sg_resp' = [status |-> 404]
            /\ UNCHANGED proposals
       ELSE /\ proposals' = rankProposals(sg_variant, proposals)
            /\ sg_resp' = [status |-> 200,
                           proposals |-> slice0(rankProposals(sg_variant, proposals), ProposalLimit)]
    /\ sg_pc' = "done"
    /\ UNCHANGED <<sg_variant, sg_body, sg_n, sg_i, sg_calls>>
    /\ UNCHANGED <<scoreVars, pickVars, planVars, tokenVars, calendarVars, dateVars, lodgingVars, limitVars>>

SuggestNext ==
    \/ Prepare
    \/ Candidate
    \/ Respond

\* the ranked output of a successful request
Ranked == IF sg_pc = "done" /\ sg_resp.status = 200 THEN proposals ELSE <<>>

sameBudgetGroup(a, b) == a.underBudget = b.underBudget

exactTie(a, b) ==
    /\ a.underBudget = b.underBudget
    /\ trendOf(a) = trendOf(b)
    /\ a.totalEstimate = b.totalEstimate

-----------------------------------------------------------------------------
(* C3: in the ranked output, a proposal under budget is before every       *)
(* proposal that is not, whatever their totals and trend scores.           *)
C3_UnderBudgetFirst ==
    \A i, j \in 1..Len(Ranked) :
        (Ranked[i].underBudget /\ ~Ranked[j].underBudget) => i < j

\* an under-budget proposal was assembled after an over-budget one that has
\* the higher trend score, and was ranked before it
C3_Witness ==
    \E i, j \in 1..Len(Ranked) :
        /\ Ranked[i].underBudget
        /\ ~Ranked[j].underBudget
        /\ Ranked[i].id > Ranked[j].id
        /\ trendOf(Ranked[i]) < trendOf(Ranked[j])

(* C4: within one budget group, a proposal with a strictly higher trend    *)
(* signal (absent counted as 0) is before one with a lower signal, and     *)
(* among equal signals a strictly lower total estimate is first.           *)
C4_TrendThenPrice ==
    \A i, j \in 1..Len(Ranked) :
        sameBudgetGroup(Ranked[i], Ranked[j]) =>
            /\ trendOf(Ranked[i]) > trendOf(Ranked[j]) => i < j
            /\ (trendOf(Ranked[i]) = trendOf(Ranked[j])
                  /\ Ranked[i].totalEstimate < Ranked[j].totalEstimate) => i < j

\* the higher trend won although its total is higher and it came later
C4_Witness ==
    \E i, j \in 1..Len(Ranked) :
        /\ i < j
        /\ sameBudgetGroup(Ranked[i], Ranked[j])
        /\ trendOf(Ranked[i]) > trendOf(Ranked[j])
        /\ Ranked[i].totalEstimate > Ranked[j].totalEstimate
        /\ Ranked[i].id > Ranked[j].id

(* C5: two proposals that tie on budget compliance, trend signal and total *)
(* estimate keep the order in which they were pushed (their destinations'  *)
(* upstream order).                                                        *)
C5_StableRanking ==
    \A i, j \in 1..Len(Ranked) :
        (i < j /\ exactTie(Ranked[i], Ranked[j])) => Ranked[i].id < Ranked[j].id

\* an exact tie, with the sort having moved another proposal in front
C5_Witness ==
    \E i, j, k \in 1..Len(Ranked) :
        /\ i < j
        /\ exactTie(Ranked[i], Ranked[j])
        /\ k < i
        /\ Ranked[k].id > Ranked[j].id

(* C7 (as claimed): the total estimate is round(outbound price) +          *)
(* round(return price) + perNight x nights, each leg rounded on its own.   *)
C7_TotalRoundsEachLeg ==
    \A k \in 1..Len(proposals) :
        proposals[k].totalEstimate =
            roundHalves(proposals[k].go2) + roundHalves(proposals[k].back2)
            + proposals[k].estPerNight * proposals[k].nights

(* C7 (amended): the total estimate is round(outbound price + return       *)
(* price) + perNight x nights: the sum of the two leg prices is rounded    *)
(* once.                                                                   *)
C7_TotalRoundsLegSum ==
    \A k \in 1..Len(proposals) :
        proposals[k].totalEstimate =
            ((proposals[k].go2 + proposals[k].back2 + 1) \div 2)
            + proposals[k].estPerNight * proposals[k].nights

\* both legs have a fractional price: 79.5 + 129.5 gives 209, not 80 + 130
C7_Witness ==
    \E k \in 1..Len(proposals) :
        /\ proposals[k].go2 % 2 = 1
        /\ proposals[k].back2 % 2 = 1
        /\ proposals[k].nights > 1

(* C8 (as claimed): underBudget is true when the request supplies no       *)
(* budget, and otherwise true exactly when the total estimate is at most   *)
(* the supplied budget (a supplied budget of 0 gives false).               *)
C8_UnderBudgetIffWithinSupplied ==
    \A k \in 1..Len(proposals) :
        proposals[k].underBudget =
            (IF sg_body.budget = <<>> THEN TRUE
             ELSE proposals[k].totalEstimate <= sg_body.budget[1])

(* C11 (as claimed): a request that fails validation is answered with a    *)
(* 4xx status, never a 5xx; in the multi-destination handlers that         *)
(* includes a request with neither month nor startDate.                    *)
C11_ValidationFailureIs4xx ==
    (sg_pc = "done" /\ sg_body.date = <<>>) => sg_resp.status \in 400..499

(* C12 (as claimed): a candidate whose lookup fails (provider error,       *)
(* thrown exception, empty result) is skipped and the others are still     *)
(* processed; the request fails only when no candidate survives.           *)
C12_FailsOnlyWithoutSurvivor ==
    (sg_pc = "done" /\ proposals # <<>>) => sg_resp.status = 200

(* C25: validation precedes every external call: when a request is        *)
(* rejected with a 4xx status for missing fields, a return date not after  *)
(* the departure or an unrecognised origin, no provider, token or          *)
(* language-model call has been issued before the rejection.               *)
C25_NoCallBeforeRejection ==
    (sg_pc = "done" /\ sg_resp.status = 400) => sg_calls = {}

-----------------------------------------------------------------------------
(* Single-destination handlers: POST of plan/route.ts:330-377 ("plan":     *)
(* Amadeus flights and hotels, mock trains, ORS driving), POST of          *)
(* plan/route.ts:649-695 ("planFlights": Amadeus flights only) and POST of *)
(* part_002:25-78 ("planMock": mock data only).                            *)

Handlers == {"plan", "planFlights", "planMock"}

\* one external HTTP call of a request: the operation, its argument and how
\* it ended ("ok", "failed": network error or non-2xx answer, "empty": a 2xx
\* answer without usable results)
call(op, arg, res) == [op |-> op, arg |-> arg, res |-> res]

\* getAmadeusToken: the token endpoint is called unless a valid token is cached
tokenCalls(cached, res) == IF cached THEN <<>> ELSE <<call("token", "", res)>>

fromCity(leg) == IF leg = "go" THEN "origin" ELSE "dest"
toCity(leg) == IF leg = "go" THEN "dest" ELSE "origin"

\* what a run of a provider function gives back to its caller
Returned(calls, cached) == [kind |-> "value", calls |-> calls, cached |-> cached]
Threw(calls, cached, msg) == [kind |-> "throw", calls |-> calls, cached |-> cached, error |-> msg]

\* how one flight lookup can go
FlightRuns(cached) ==
    (IF cached THEN {} ELSE {"tokenFails"})
    \cup {"locateFails", "searchFails", "noFlights", "found"}

\* amadeusFlights of plan/route.ts:114-157: token, the two city codes, the
\* flight offers
amadeusFlightsRun(leg, cached, run) ==
    LET a == fromCity(leg)
        b == toCity(leg)
        t == tokenCalls(cached, "ok")
    IN  CASE run = "tokenFails" ->
                Threw(tokenCalls(cached, "failed"), FALSE, "Amadeus OAuth failed")
          [] run = "locateFails" ->
                Threw(t \o <<call("locate", a, "failed"), call("locate", b, "ok")>>,
                      TRUE, "IATA code not found")
          [] run = "searchFails" ->
                Threw(t \o <<call("locate", a, "ok"), call("locate", b, "ok"),
                             call("flights", leg, "failed")>>,
                      TRUE, "Flight search failed")
          [] run = "noFlights" ->
                Threw(t \o <<call("locate", a, "ok"), call("locate", b, "ok"),
                             call("flights", leg, "empty")>>,
                      TRUE, "No flights found")
          [] run = "found" ->
                Returned(t \o <<call("locate", a, "ok"), call("locate", b, "ok"),
                                call("flights", leg, "ok")>>,
                         TRUE)

\* resolveIata of plan/route.ts:542-555 for a city name that is neither a
\* 3-letter code nor in IATA_BY_ALIAS: the lookup by the name as given and,
\* when that gives nothing and the name has an English alias, the lookup by
\* the alias.  found says whether a code came out.
resolveIataCalls(city, hasAlias, found) ==
    IF found THEN <<call("locate", city, "ok")>>
    ELSE IF hasAlias
         THEN <<call("locate", city, "failed"), call("locateAlias", city, "failed")>>
         ELSE <<call("locate", city, "failed")>>

\* amadeusFlights of plan/route.ts:558-603: resolveIata of both cities (the
\* first getAmadeusToken is inside amadeusCityOrAirportCode), the offers
amadeusFlightsRun2(leg, cached, hasAlias, run) ==
    LET a == fromCity(leg)
        b == toCity(leg)
        t == tokenCalls(cached, "ok")
    IN  CASE run = "tokenFails" ->
                Threw(tokenCalls(cached, "failed"), FALSE, "Amadeus OAuth failed (401)")
          [] run = "locateFails" ->
                Threw(t \o resolveIataCalls(a, hasAlias, FALSE) \o resolveIataCalls(b, hasAlias, TRUE),
                      TRUE, "IATA code not found")
          [] run = "searchFails" ->
                Threw(t \o resolveIataCalls(a, hasAlias, TRUE) \o resolveIataCalls(b, hasAlias, TRUE)
                        \o <<call("flights", leg, "failed")>>,
                      TRUE, "Flight search failed")
          [] run = "noFlights" ->
                Threw(t \o resolveIataCalls(a, hasAlias, TRUE) \o resolveIataCalls(b, hasAlias, TRUE)
                        \o <<call("flights", leg, "empty")>>,
                      TRUE, "No flights found")
          [] run = "found" ->
                Returned(t \o resolveIataCalls(a, hasAlias, TRUE) \o resolveIataCalls(b, hasAlias, TRUE)
                           \o <<call("flights", leg, "ok")>>,
                         TRUE)

\* how one driving lookup can go
DriveRuns == {"geocodeFails", "directionsFail", "routed"}

\* orsDrive of plan/route.ts:172-198: two geocodes, then the directions
orsDriveRun(leg, cached, run) ==
    LET a == fromCity(leg)
        b == toCity(leg)
    IN  CASE run = "geocodeFails" ->
                Threw(<<call("geocode", a, "failed"), call("geocode", b, "ok")>>,
                      cached, "Geocode failed")
          [] run = "directionsFail" ->
                Threw(<<call("geocode", a, "ok"), call("geocode", b, "ok"),
                        call("directions", leg, "failed")>>,
                      cached, "ORS directions failed")
          [] run = "routed" ->
                Returned(<<call("geocode", a, "ok"), call("geocode", b, "ok"),
                           call("directions", leg, "ok")>>,
                         cached)

\* how one hotel lookup can go
HotelRuns(cached) ==
    (IF cached THEN {} ELSE {"tokenFails"})
    \cup {"searchFails", "noHotels", "found"}

\* amadeusHotels of plan/route.ts:201-250 with a city code found
amadeusHotelsRun(cached, run) ==
    LET t == tokenCalls(cached, "ok") \o <<call("locate", "dest", "ok")>>
    IN  CASE run = "tokenFails" ->
                Threw(tokenCalls(cached, "failed"), FALSE, "Amadeus OAuth failed")
          [] run = "searchFails" ->
                Threw(t \o <<call("hotels", "dest", "failed")>>, TRUE, "Hotel search failed")
          [] run = "noHotels" ->
                Threw(t \o <<call("hotels", "dest", "empty")>>, TRUE, "No hotels found")
          [] run = "found" ->
                Returned(t \o <<call("hotels", "dest", "ok")>>, TRUE)

\* a step that is not run
notRun(cached) == Threw(<<>>, cached, "not called")

\* pickBestTransport of plan/route.ts:289-310: the flight try-block, the mock
\* trains, the drive try-block; modes of the options in list
pickBestTransportRun(leg, modes, env, cached, frun, drun) ==
    LET f == IF "flight" \in modes /\ env.amadeus
             THEN amadeusFlightsRun(leg, cached, frun) ELSE notRun(cached)
        d == IF "drive" \in modes /\ env.ors
             THEN orsDriveRun(leg, f.cached, drun) ELSE notRun(f.cached)
        list == (IF f.kind = "value" THEN {"flight"} ELSE {})
                \cup (IF "train" \in modes THEN {"train"} ELSE {})
                \cup (IF d.kind = "value" THEN {"drive"} ELSE {})
    IN  IF list = {}
        THEN Threw(f.calls \o d.calls, d.cached, "Nessuna opzione di trasporto disponibile")
        ELSE [kind |-> "value", calls |-> f.calls \o d.calls, cached |-> d.cached, list |-> list]

\* the mock lodging list of pickBestLodging (85 and 110 per night) after
\* .filter(x => !maxPerNight || x.pricePerNight <= maxPerNight)
mockLodgingPrices(maxPerNight) ==
    { p \in {85, 110} : maxPerNight = <<>> \/ maxPerNight[1] = 0 \/ p <= maxPerNight[1] }

\* pickBestLodging of plan/route.ts:312-327: the hotel search when Amadeus is
\* configured, and the mock list when it is not or when the search throws
pickBestLodgingRun(env, cached, maxPerNight, hrun) ==
    LET h == IF env.amadeus THEN amadeusHotelsRun(cached, hrun) ELSE notRun(cached)
    IN  IF h.kind = "value"
        THEN [kind |-> "value", calls |-> h.calls, cached |-> h.cached, list |-> {"hotel"}]
        ELSE IF mockLodgingPrices(maxPerNight) = {}
             THEN Threw(h.calls, h.cached, "Nessuna sistemazione trovata")
             ELSE [kind |-> "value", calls |-> h.calls, cached |-> h.cached, list |-> {"mock"}]

-----------------------------------------------------------------------------
(* Specification SpecPlan: one request to a single-destination handler     *)

\* the request body, as far as validation and selection read it:
\*   complete   origin, dest, departDate and returnDate are all non-empty
\*   datesOk    returnDate is after departDate
\*   modes      body.modes (the default is all three)
\*   maxNight   body.maxNight
\*   hasAlias   the city names have an English alias in EN_BY_ALIAS
PlanBodies(handler) ==
    [ complete: BOOLEAN,
      datesOk: BOOLEAN,
      modes: IF handler = "planFlights" THEN {{"flight"}} ELSE SUBSET Modes,
      maxNight: IF handler = "plan" THEN Optional(MaxNightValues) ELSE {<<>>},
      hasAlias: IF handler = "planFlights" THEN BOOLEAN ELSE {FALSE} ]

\* which API keys the deployment has
PlanEnvs(handler) ==
    IF handler = "planMock" THEN {[amadeus |-> FALSE, ors |-> FALSE]}
    ELSE IF handler = "planFlights" THEN [amadeus: BOOLEAN, ors: {FALSE}]
    ELSE [amadeus: BOOLEAN, ors: BOOLEAN]

NoPlanResponse == [kind |-> "none"]
Json(status) == [kind |-> "json", status |-> status]
JsonError(status, msg) == [kind |-> "json", status |-> status, error |-> msg]
Unhandled(msg) == [kind |-> "unhandled", error |-> msg]

NotPicked == [kind |-> "pending"]

PlanIdle ==
    /\ pl_handler = "none"
    /\ pl_body = <<>>
    /\ pl_env = <<>>
    /\ pl_cached = FALSE
    /\ pl_calls = <<>>
    /\ pl_go = NotPicked
    /\ pl_back = NotPicked
    /\ pl_stay = NotPicked
    /\ pl_resp = NoPlanResponse
    /\ pl_pc = "idle"

PlanStart ==
    /\ pl_handler \in Handlers
    /\ pl_body \in PlanBodies(pl_handler)
    /\ pl_env \in PlanEnvs(pl_handler)
    /\ pl_cached \in (IF pl_env.amadeus THEN BOOLEAN ELSE {FALSE})
    /\ pl_calls = <<>>
    /\ pl_go = NotPicked
    /\ pl_back = NotPicked
    /\ pl_stay = NotPicked
    /\ pl_resp = NoPlanResponse
    /\ pl_pc = "start"

\* the two validation checks (plan/route.ts:341-346, 660-665, part_002:35-42)
PlanValidate ==
    /\ pl_pc = "start"
    /\ IF ~pl_body.complete
       THEN /\ pl_resp' = JsonError(400, "origin, dest, departDate, returnDate sono obbligatori")
            /\ pl_pc' = "done"
       ELSE IF ~pl_body.datesOk
       THEN /\ pl_resp' = JsonError(400, "La data di ritorno deve essere dopo la partenza")
            /\ pl_pc' = "done"
       ELSE /\ pl_pc' = "go"
            /\ UNCHANGED pl_resp
    /\ UNCHANGED <<pl_handler, pl_body, pl_env, pl_cached, pl_calls, pl_go, pl_back, pl_stay>>
    /\ UNCHANGED <<scoreVars, pickVars, suggestVars, tokenVars, calendarVars, dateVars, lodgingVars, limitVars>>

\* pickBestTransport of the handler for one leg
transportRuns(handler, leg, body, env, cached) ==
    CASE handler = "plan" ->
            { pickBestTransportRun(leg, body.modes, env, cached, frun, drun) :
                frun \in FlightRuns(cached), drun \in DriveRuns }
      [] handler = "planFlights" ->
            IF env.amadeus
            THEN { amadeusFlightsRun2(leg, cached, body.hasAlias, frun) : frun \in FlightRuns(cached) }
            ELSE { Threw(<<>>, cached, "Missing AMADEUS_API_KEY or AMADEUS_API_SECRET") }
      [] handler = "planMock" ->
            \* opts.sort(...)[0]: undefined when no mode is enabled
            { IF body.modes = {} THEN [kind |-> "undefined", calls |-> <<>>, cached |-> cached]
              ELSE [kind |-> "value", calls |-> <<>>, cached |-> cached, list |-> body.modes] }

\* const go = await pickBestTransport(origin, dest, dFromISO, modes)
\* const back = await pickBestTransport(dest, origin, dToISO, modes)
\*   (plan/route.ts:348-349, 667-668, part_002:46-47)
PlanTransport ==
    /\ pl_pc \in {"go", "back"}
    /\ \E r \in transportRuns(pl_handler, pl_pc, pl_body, pl_env, pl_cached) :
          /\ pl_calls' = pl_calls \o r.calls
          /\ pl_cached' = r.cached
          /\ IF r.kind = "throw"
             THEN \* the handler's catch
                  /\ pl_resp' = JsonError(500, r.error)
                  /\ pl_pc' = "done"
                  /\ UNCHANGED <<pl_go, pl_back>>
             ELSE /\ pl_go' = IF pl_pc = "go" THEN r ELSE pl_go
                  /\ pl_back' = IF pl_pc = "back" THEN r ELSE pl_back
                  /\ pl_pc' = IF pl_pc = "go" THEN "back" ELSE "stay"
                  /\ UNCHANGED pl_resp
    /\ UNCHANGED <<pl_handler, pl_body, pl_env, pl_stay>>
    /\ UNCHANGED <<scoreVars, pickVars, suggestVars, tokenVars, calendarVars, dateVars, lodgingVars, limitVars>>

\* the lodging step of the handler
lodgingRuns(handler, body, env, cached) ==
    CASE handler = "plan" ->
            { pickBestLodgingRun(env, cached, body.maxNight, hrun) : hrun \in HotelRuns(cached) }
      [] handler = "planFlights" ->
            \* amadeusCityGeo (plan/route.ts:509-524): null when the answer is not ok
            { [kind |-> "value", calls |-> tokenCalls(cached, "ok") \o <<call("geo", "dest", res)>>,
               cached |-> TRUE, list |-> {"links"}] : res \in {"ok", "failed"} }
      [] handler = "planMock" ->
            { [kind |-> "value", calls |-> <<>>, cached |-> cached, list |-> {"mock"}] }

\* const stay = await pickBestLodging(...)   (plan/route.ts:350, part_002:48)
\* const geo = await amadeusCityGeo(dest)    (plan/route.ts:671)
PlanLodging ==
    /\ pl_pc = "stay"
    /\ \E r \in lodgingRuns(pl_handler, pl_body, pl_env, pl_cached) :
          /\ pl_calls' = pl_calls \o r.calls
          /\ pl_cached' = r.cached
          /\ IF r.kind = "throw"
             THEN /\ pl_resp' = JsonError(500, r.error)
                  /\ pl_pc' = "done"
                  /\ UNCHANGED pl_stay
             ELSE /\ pl_stay' = r
                  /\ pl_pc' = "respond"
                  /\ UNCHANGED pl_resp
    /\ UNCHANGED <<pl_handler, pl_body, pl_env, pl_go, pl_back>>
    /\ UNCHANGED <<scoreVars, pickVars, suggestVars, tokenVars, calendarVars, dateVars, lodgingVars, limitVars>>

\* the events are built from go, back and stay (go.provider is the first
\* read) and the plan is returned   (plan/route.ts:355-373, part_002:55-77)
PlanRespond ==
    /\ pl_pc = "respond"
    /\ pl_resp' = IF pl_go.kind = "undefined" \/ pl_back.kind = "undefined"
                  THEN IF pl_handler = "planMock"
                       THEN Unhandled("TypeError")
                       ELSE JsonError(500, "TypeError")
                  ELSE Json(200)
    /\ pl_pc' = "done"
    /\ UNCHANGED <<pl_handler, pl_body, pl_env, pl_cached, pl_calls, pl_go, pl_back, pl_stay>>
    /\ UNCHANGED <<scoreVars, pickVars, suggestVars, tokenVars, calendarVars, dateVars, lodgingVars, limitVars>>

PlanNext ==
    \/ PlanValidate
    \/ PlanTransport
    \/ PlanLodging
    \/ PlanRespond

\* the external calls of the request that ended as res
callsEnded(res) == { i \in 1..Len(pl_calls) : pl_calls[i].res = res }

(* C13 (as claimed): in the single-destination flow a failed provider call *)
(* aborts the whole request: no successful plan is returned after a        *)
(* provider call of the request has failed.                                *)
C13_ProviderFailureAborts ==
    (pl_pc = "done" /\ callsEnded("failed") # {}) =>
        (pl_resp.kind = "json" /\ pl_resp.status >= 400)

(* C14 (as claimed): every request ends with a response, a success payload *)
(* or an error message with a 4xx or 5xx status; no input makes a handler  *)
(* end with an unhandled exception.                                        *)
C14_AlwaysAResponse ==
    pl_pc = "done" =>
        /\ pl_resp.kind = "json"
        /\ pl_resp.status \in {200} \cup (400..599)

(* C15 (as claimed): when a provider lookup completes without error but    *)
(* yields no results, the request is answered with a 404-equivalent        *)
(* response, not with a 5xx status.                                        *)
C15_NoResultsIs404 ==
    (pl_pc = "done" /\ callsEnded("empty") # {}) =>
        (pl_resp.kind = "json" /\ pl_resp.status = 404)

(* C16 (as claimed): within one request an external call that has failed   *)
(* is never issued again.                                                  *)
C16_NoCallAfterItsFailure ==
    \A i, j \in 1..Len(pl_calls) :
        (i < j /\ pl_calls[i].res = "failed") =>
            ~(pl_calls[j].op = pl_calls[i].op /\ pl_calls[j].arg = pl_calls[i].arg)

-----------------------------------------------------------------------------
(* The Amadeus token cache: getAmadeusToken and the module variable        *)
(* amadeusToken (plan/route.ts:81-94, agent/route.ts:97-114).              *)
(* Time is counted in half seconds (suffix 2), so that the fractional      *)
(* Date.now() / 1000 of plan/route.ts:83 and the Math.floor(Date.now() /   *)
(* 1000) of agent/route.ts:100 are told apart.                             *)

TokenVariants == {"fractional", "floored"}

\* const now = Date.now() / 1000              (plan/route.ts:83)
\* const now = Math.floor(Date.now() / 1000)  (agent/route.ts:100)
nowOf(variant, time2) == IF variant = "floored" THEN 2 * (time2 \div 2) ELSE time2

\* exp: Math.floor(now + j.expires_in)  (plan/route.ts:92)
\*      now + j.expires_in              (agent/route.ts:112)
expOf(variant, now2, expiresIn) ==
    IF variant = "floored" THEN now2 + 2 * expiresIn
    ELSE 2 * ((now2 + 2 * expiresIn) \div 2)

\* the cache test without the 30 seconds of margin
tokenFreshNoMargin(cache, now2) == cache # <<>> /\ cache[1].exp2 > now2

\* amadeusToken && amadeusToken.exp - 30 > now
tokenFresh(cache, now2) == cache # <<>> /\ cache[1].exp2 - 2 * Margin > now2

\* a store that writes the token and leaves the expiry of the entry it
\* replaces
storeTokenKeepExp(cache, variant, now2, resp) ==
    IF cache = <<>>
    THEN << [token |-> resp.token, exp2 |-> expOf(variant, now2, resp.expiresIn)] >>
    ELSE << [token |-> resp.token, exp2 |-> cache[1].exp2] >>

\* amadeusToken = { token: j.access_token, exp: now + j.expires_in }
storeToken(cache, variant, now2, resp) ==
    << [token |-> resp.token, exp2 |-> expOf(variant, now2, resp.expiresIn)] >>

-----------------------------------------------------------------------------
(* Specification SpecToken: concurrent calls of getAmadeusToken            *)

\* the concurrent calls of getAmadeusToken in one module instance
Callers == {1, 2, 3}

NoTokenResponse == [ok |-> FALSE, token |-> 0, expiresIn |-> 0, issued2 |-> 0]

\* a call that has not started
CallerIdle ==
    [pc |-> "idle", now2 |-> 0, checked2 |-> 0, hit |-> FALSE, seen |-> <<>>,
     resp |-> NoTokenResponse, ret |-> 0]

TokenIdle ==
    /\ tk_variant = "none"
    /\ tk_time2 = 0
    /\ tk_cache = <<>>
    /\ tk_callers = <<>>
    /\ tk_requests = 0
    /\ tk_issued = {}

TokenStart ==
    /\ tk_variant \in TokenVariants
    /\ tk_time2 = 0
    /\ tk_cache = <<>>
    /\ tk_callers = [c \in Callers |-> CallerIdle]
    /\ tk_requests = 0
    /\ tk_issued = {}

\* time passes
TokenTick ==
    /\ tk_variant # "none"
    /\ tk_time2 < MaxTime2
    /\ tk_time2' = tk_time2 + 1
    /\ UNCHANGED <<tk_variant, tk_cache, tk_callers, tk_requests, tk_issued>>
    /\ UNCHANGED <<scoreVars, pickVars, suggestVars, planVars, calendarVars, dateVars, lodgingVars, limitVars>>

\* the synchronous start of getAmadeusToken: read the clock, test the cache,
\* return the cached token or send the request to the token endpoint
\* (calls are numbered in the order in which they start)
TokenCheck(c) ==
    /\ tk_callers[c].pc = "idle"
    /\ \A b \in Callers : b < c => tk_callers[b].pc # "idle"
    /\ LET now2 == nowOf(tk_variant, tk_time2)
       IN  IF tokenFresh(tk_cache, now2)
           THEN /\ tk_callers' = [tk_callers EXCEPT ![c] =
                       [@ EXCEPT !.pc = "returned", !.now2 = now2, !.checked2 = tk_time2,
                                 !.hit = TRUE, !.seen = tk_cache, !.ret = tk_cache[1].token]]
                /\ UNCHANGED tk_requests
           ELSE /\ tk_callers' = [tk_callers EXCEPT ![c] =
                       [@ EXCEPT !.pc = "fetching", !.now2 = now2, !.checked2 = tk_time2,
                                 !.seen = tk_cache]]
                /\ tk_requests' = tk_requests + 1
    /\ UNCHANGED <<tk_variant, tk_time2, tk_cache, tk_issued>>
    /\ UNCHANGED <<scoreVars, pickVars, suggestVars, planVars, calendarVars, dateVars, lodgingVars, limitVars>>

\* await fetch(...) resolves: !res.ok throws, else the body is awaited
TokenAnswer(c) ==
    /\ tk_callers[c].pc = "fetching"
    /\ \/ /\ tk_callers' = [tk_callers EXCEPT ![c] = [@ EXCEPT !.pc = "thrown"]]
          /\ UNCHANGED tk_issued
       \/ \E e \in ExpiresInValues :
             LET resp == [ok |-> TRUE, token |-> Cardinality(tk_issued) + 1,
                          expiresIn |-> e, issued2 |-> tk_time2]
             IN  /\ tk_callers' = [tk_callers EXCEPT ![c] = [@ EXCEPT !.pc = "parsing", !.resp = resp]]
                 /\ tk_issued' = tk_issued \cup {resp}
    /\ UNCHANGED <<tk_variant, tk_time2, tk_cache, tk_requests>>
    /\ UNCHANGED <<scoreVars, pickVars, suggestVars, planVars, calendarVars, dateVars, lodgingVars, limitVars>>

\* await res.json() resolves: the cache entry is replaced and its token
\* returned
TokenStore(c) ==
    /\ tk_callers[c].pc = "parsing"
    /\ LET entry == storeToken(tk_cache, tk_variant, tk_callers[c].now2, tk_callers[c].resp)
       IN  /\ tk_cache' = entry
           /\ tk_callers' = [tk_callers EXCEPT ![c] = [@ EXCEPT !.pc = "returned", !.ret = entry[1].token]]
    /\ UNCHANGED <<tk_variant, tk_time2, tk_requests, tk_issued>>
    /\ UNCHANGED <<scoreVars, pickVars, suggestVars, planVars, calendarVars, dateVars, lodgingVars, limitVars>>

TokenNext ==
    \/ TokenTick
    \/ \E c \in Callers : TokenCheck(c)
    \/ \E c \in Callers : TokenAnswer(c)
    \/ \E c \in Callers : TokenStore(c)

\* the callers that found no usable token in the cache
Missed == { c \in DOMAIN tk_callers : tk_callers[c].pc # "idle" /\ ~tk_callers[c].hit }

\* the response that issued a token
issuedAs(token) == CHOOSE r \in tk_issued : r.token = token

-----------------------------------------------------------------------------
(* C17: getAmadeusToken calls the token endpoint only when the cache is    *)
(* absent or its expiry minus 30 seconds is not after the current time;    *)
(* otherwise it returns the cached token without a network call, and a     *)
(* cached token handed out has more than 30 seconds of validity left at    *)
(* the moment of the check.                                                *)
C17_LazyRefresh ==
    \A c \in DOMAIN tk_callers :
        LET k == tk_callers[c]
        IN  /\ (k.pc # "idle" /\ ~k.hit) =>
                   (k.seen = <<>> \/ k.seen[1].exp2 - 60 <= k.now2)
            /\ (k.pc # "idle" /\ k.hit) =>
                   /\ k.pc = "returned"
                   /\ k.resp = NoTokenResponse
                   /\ k.seen # <<>>
                   /\ k.ret = k.seen[1].token
                   /\ issuedAs(k.ret).issued2 + 2 * issuedAs(k.ret).expiresIn - k.checked2 > 60
            /\ tk_requests = Cardinality(Missed)

\* one caller was given the cached token some time after another stored it,
\* and a third call found it too old and asked the endpoint
C17_Witness ==
    \E c, d \in DOMAIN tk_callers :
        /\ tk_callers[c].hit
        /\ tk_callers[c].checked2 > issuedAs(tk_callers[c].ret).issued2
        /\ tk_callers[d].pc = "fetching"
        /\ tk_callers[d].seen # <<>>

(* C18: concurrent refreshes are benign: every caller that finds the cache *)
(* absent or expired issues its own request, every such caller that        *)
(* returns gives back the token of its own successful response, and the    *)
(* cache always holds a token with the expiry computed from the response   *)
(* that carried that token.                                                *)
C18_ConcurrentRefreshBenign ==
    /\ tk_requests = Cardinality(Missed)
    /\ \A c \in Missed :
          tk_callers[c].pc = "returned" =>
              /\ tk_callers[c].resp.ok
              /\ tk_callers[c].resp \in tk_issued
              /\ tk_callers[c].ret = tk_callers[c].resp.token
    /\ tk_cache # <<>> =>
          \E c \in Missed :
              /\ tk_callers[c].pc = "returned"
              /\ tk_callers[c].resp.token = tk_cache[1].token
              /\ tk_cache[1].exp2 =
                    IF tk_variant = "floored"
                    THEN tk_callers[c].now2 + 2 * tk_callers[c].resp.expiresIn
                    ELSE 2 * ((tk_callers[c].now2 + 2 * tk_callers[c].resp.expiresIn) \div 2)

\* two refreshes overlapped, and the one that was answered first stored
\* last: the cache holds the older token with its own expiry
C18_Witness ==
    \E c, d \in Missed :
        /\ c # d
        /\ tk_callers[c].pc = "returned"
        /\ tk_callers[d].pc = "returned"
        /\ tk_callers[c].resp.token < tk_callers[d].resp.token
        /\ tk_callers[c].resp.expiresIn # tk_callers[d].resp.expiresIn
        /\ tk_callers[d].checked2 <= tk_callers[c].resp.issued2
        /\ tk_cache[1].token = tk_callers[c].resp.token

-----------------------------------------------------------------------------
(* Calendar output: the events of a plan or proposal, makeICS and gcalLink *)
(* (plan/route.ts:263-286 and 355-363, agent/route.ts:76-95 and 363-375).  *)
(* A text is the sequence of the physical lines it holds (it is split at   *)
(* every CRLF), a line is a sequence of tokens; makeICS joins its entries  *)
(* with CRLF and escapes nothing, so an entry made of a text of several    *)
(* lines yields several lines of the calendar file.                        *)

Lit(s) == [lit |-> s]
Num(n) == [num |-> n]

\* a text of one line made of one token
plain(s) == << << Lit(s) >> >>

\* string concatenation: the last line of a continues with the first of b
textCat(a, b) ==
    SubSeq(a, 1, Len(a) - 1) \o << a[Len(a)] \o b[1] >> \o Tail(b)

RECURSIVE joinLines(_)
\* lines.join('\r\n'), as the lines of the resulting file
joinLines(texts) ==
    IF texts = <<>> THEN <<>> ELSE Head(texts) \o joinLines(Tail(texts))

\* body.alarmMin ? Number(body.alarmMin) : 45               (plan/route.ts:339, part_002:34)
\* body.alarmMin !== undefined ? Number(body.alarmMin) : 45 (plan/route.ts:657)
\* makeICS(..., 45)                                         (agent/route.ts:369)
\* in half minutes; given is <<>> (no alarmMin in the body) or <<n2>>
alarmOf(handler, given) ==
    CASE handler \in {"plan", "planMock"} ->
             IF given # <<>> /\ given[1] # 0 THEN given[1] ELSE 2 * DefaultAlarm
      [] handler = "planFlights" ->
             IF given # <<>> THEN given[1] ELSE 2 * DefaultAlarm
      [] OTHER -> 2 * DefaultAlarm

\* the four events of one plan or proposal
eventsOf(origin, dest, stayName) ==
    << [kind |-> "departure",
        title |-> textCat(textCat(plain("Partenza "), origin),
                          textCat(textCat(plain(" -> "), dest), plain(" (provider)"))),
        location |-> origin],
       [kind |-> "check-in",  title |-> textCat(plain("Check-in "), stayName),  location |-> dest],
       [kind |-> "check-out", title |-> textCat(plain("Check-out "), stayName), location |-> dest],
       [kind |-> "return",
        title |-> textCat(textCat(textCat(plain("Ritorno "), dest), textCat(plain(" -> "), origin)),
                          plain(" (provider)")),
        location |-> dest] >>

\* if (alarmMin && alarmMin > 0) lines.push('BEGIN:VALARM', `TRIGGER:-PT${Math.floor(alarmMin)}M`, ...)
alarmLines(alarm2) ==
    IF alarm2 # 0 /\ alarm2 > 0
    THEN << plain("BEGIN:VALARM"),
            << << Lit("TRIGGER:-PT"), Num(alarm2 \div 2), Lit("M") >> >>,
            plain("ACTION:DISPLAY"), plain("DESCRIPTION:Promemoria"), plain("END:VALARM") >>
    ELSE <<>>

\* the entries makeICS pushes for one event
eventLines(e, alarm2) ==
    << plain("BEGIN:VEVENT"), plain("UID"), plain("DTSTAMP"), plain("DTSTART"), plain("DTEND"),
       textCat(plain("SUMMARY:"), e.title) >>
    \o (IF e.location # plain("") THEN << textCat(plain("LOCATION:"), e.location) >> ELSE <<>>)
    \o << plain("DESCRIPTION") >>
    \o alarmLines(alarm2)
    \o << plain("END:VEVENT") >>

RECURSIVE allEventLines(_, _)
allEventLines(events, alarm2) ==
    IF events = <<>> THEN <<>>
    ELSE eventLines(Head(events), alarm2) \o allEventLines(Tail(events), alarm2)

\* makeICS(title, events, alarmMin): the lines of the calendar file
makeICS(title, events, alarm2) ==
    joinLines(<< plain("BEGIN:VCALENDAR"), plain("PRODID"), plain("VERSION:2.0"),
                 plain("CALSCALE:GREGORIAN"), textCat(plain("X-WR-CALNAME:"), title),
                 plain("X-WR-TIMEZONE") >>
              \o allEventLines(events, alarm2)
              \o << plain("END:VCALENDAR") >>)

\* gcalLink(e): URLSearchParams encodes the values, a link is one string
gcalLink(e) == [event |-> e.kind, location |-> e.location]

-----------------------------------------------------------------------------
(* Specification SpecCalendar: the calendar part of one successful request *)

CalHandlers == {"plan", "planFlights", "planMock", "agent"}

CalBodies == [alarm : Optional(AlarmValues2), origin : OriginTexts]

CalendarIdle ==
    /\ cal_handler = "none"
    /\ cal_body = <<>>
    /\ cal_alarm2 = 0
    /\ cal_events = <<>>
    /\ cal_ics = <<>>
    /\ cal_links = <<>>
    /\ cal_pc = "idle"

\* (an origin of several lines is taken where the handler succeeds without
\* looking the origin up: mock trains of "plan", mock data of "planMock")
CalendarStart ==
    /\ cal_handler \in CalHandlers
    /\ cal_body \in CalBodies
    /\ Len(cal_body.origin) > 1 => cal_handler \in {"plan", "planMock"}
    /\ cal_alarm2 = 0
    /\ cal_events = <<>>
    /\ cal_ics = <<>>
    /\ cal_links = <<>>
    /\ cal_pc = "start"

\* the handler reads the reminder lead time
CalParse ==
    /\ cal_pc = "start"
    /\ cal_alarm2' = alarmOf(cal_handler, cal_body.alarm)
    /\ cal_pc' = "events"
    /\ UNCHANGED <<cal_handler, cal_body, cal_events, cal_ics, cal_links>>
    /\ UNCHANGED <<scoreVars, pickVars, suggestVars, planVars, tokenVars, dateVars, lodgingVars, limitVars>>

\* const events = [...]
CalEvents ==
    /\ cal_pc = "events"
    /\ cal_events' = eventsOf(cal_body.origin, plain("Roma"), plain("Hotel Centro"))
    /\ cal_pc' = "ics"
    /\ UNCHANGED <<cal_handler, cal_body, cal_alarm2, cal_ics, cal_links>>
    /\ UNCHANGED <<scoreVars, pickVars, suggestVars, planVars, tokenVars, dateVars, lodgingVars, limitVars>>

\* const ics = makeICS(title, events, alarmMin)
CalICS ==
    /\ cal_pc = "ics"
    /\ cal_ics' = makeICS(plain("Roma"), cal_events, cal_alarm2)
    /\ cal_pc' = "links"
    /\ UNCHANGED <<cal_handler, cal_body, cal_alarm2, cal_events, cal_links>>
    /\ UNCHANGED <<scoreVars, pickVars, suggestVars, planVars, tokenVars, dateVars, lodgingVars, limitVars>>

\* const gcalLinks = events.map(gcalLink)
CalLinks ==
    /\ cal_pc = "links"
    /\ cal_links' = [i \in 1..Len(cal_events) |-> gcalLink(cal_events[i])]
    /\ cal_pc' = "done"
    /\ UNCHANGED <<cal_handler, cal_body, cal_alarm2, cal_events, cal_ics>>
    /\ UNCHANGED <<scoreVars, pickVars, suggestVars, planVars, tokenVars, dateVars, lodgingVars, limitVars>>

CalendarNext ==
    \/ CalParse
    \/ CalEvents
    \/ CalICS
    \/ CalLinks

\* the positions of the lines of the calendar file equal to one token
linesAt(s) == { i \in 1..Len(cal_ics) : cal_ics[i] = << Lit(s) >> }

\* the minutes of the TRIGGER lines of the calendar file
triggers ==
    { cal_ics[i][2].num : i \in { j \in 1..Len(cal_ics) :
          Len(cal_ics[j]) = 3 /\ cal_ics[j][1] = Lit("TRIGGER:-PT") } }

-----------------------------------------------------------------------------
(* C19: every successful plan or proposal carries exactly four events, in  *)
(* the order departure, check-in, check-out, return; the calendar file     *)
(* holds exactly one VEVENT block per event, each BEGIN:VEVENT closed by   *)
(* an END:VEVENT before the next, inside a single VCALENDAR; there is one  *)
(* calendar link per event, in the same order.                             *)
C19_FourEventsOneBlockEach ==
    cal_pc = "done" =>
        /\ [i \in 1..Len(cal_events) |-> cal_events[i].kind]
               = <<"departure", "check-in", "check-out", "return">>
        /\ Cardinality(linesAt("BEGIN:VEVENT")) = Len(cal_events)
        /\ Cardinality(linesAt("END:VEVENT")) = Len(cal_events)
        /\ \A b \in linesAt("BEGIN:VEVENT") :
              \E e \in linesAt("END:VEVENT") :
                  /\ b < e
                  /\ \A x \in linesAt("BEGIN:VEVENT") \cup linesAt("END:VEVENT") : ~(b < x /\ x < e)
        /\ linesAt("BEGIN:VCALENDAR") = {1}
        /\ linesAt("END:VCALENDAR") = {Len(cal_ics)}
        /\ Len(cal_links) = Len(cal_events)
        /\ \A i \in 1..Len(cal_links) : cal_links[i].event = cal_events[i].kind

(* C20: the reminder follows the request: an alarm value n > 0 gives every *)
(* event block one reminder triggering floor(n) minutes before, an alarm   *)
(* value of zero or less gives no reminder, and the 45 minutes default     *)
(* applies only when the request gives no value.                           *)
C20_ReminderFollowsRequest ==
    cal_pc = "done" =>
        LET given == cal_body.alarm
            wanted2 == IF given = <<>> THEN 90 ELSE given[1]
        IN  IF wanted2 > 0
            THEN /\ Cardinality(linesAt("BEGIN:VALARM")) = Len(cal_events)
                 /\ triggers = { wanted2 \div 2 }
            ELSE /\ linesAt("BEGIN:VALARM") = {}
                 /\ triggers = {}

-----------------------------------------------------------------------------
(* Dates and seasons: seasonalFactor (agent/route.ts:221-223), the nights  *)
(* of a request (agent/route.ts:306, plan/route.ts:352) and the start date *)
(* derived from a month (agent/route.ts:310-329).                          *)

\* the season of a month: 3 August, 2 July, 1 June and September, 0 the rest
seasonTier(month) ==
    CASE month = 8 -> 3
      [] month = 7 -> 2
      [] month \in {6, 9} -> 1
      [] OTHER -> 0

\* Math.round(n / d) for d > 0: the nearest integer, halves upwards
roundDiv(n, d) == (2 * n + d) \div (2 * d)

\* new Date(`${dToISO}T00:00:00`).getTime() - new Date(`${dFromISO}T00:00:00`).getTime(),
\* in hours: the two dates are local midnights, shift is the change of the
\* zone's UTC offset between them (daylight saving time)
hoursBetween(dates) == 24 * (dates.to - dates.from) + dates.shift

\* plan/route.ts:344-346 and :352 (also :662-664 and :686): the date check
\* and the nights of the plan
planNights(dates) ==
    IF hoursBetween(dates) <= 0
    THEN [kind |-> "rejected", status |-> 400]
    ELSE [kind |-> "nights", nights |-> Max(1, roundDiv(hoursBetween(dates), 24))]

\* the Gregorian calendar of the JavaScript Date, in UTC
isLeapYear(y) == (y % 4 = 0 /\ y % 100 # 0) \/ y % 400 = 0

daysInMonth(y, m) ==
    CASE m = 2 -> (IF isLeapYear(y) THEN 29 ELSE 28)
      [] m \in {4, 6, 9, 11} -> 30
      [] OTHER -> 31

\* days from 1970-01-01 to y-m-d
daysFromEpoch(y, m, d) ==
    LET yy == IF m <= 2 THEN y - 1 ELSE y
        era == yy \div 400
        yoe == yy - era * 400
        mp == IF m > 2 THEN m - 3 ELSE m + 9
        doy == (153 * mp + 2) \div 5 + d - 1
        doe == yoe * 365 + yoe \div 4 - yoe \div 100 + doy
    IN  era * 146097 + doe - 719468

\* getUTCDay(): 0 Sunday .. 6 Saturday (1970-01-01 was a Thursday)
getUTCDay(y, m, d) == (daysFromEpoch(y, m, d) + 4) % 7

\* new Date(Date.UTC(Y, M-1, 1)): Date.UTC reads a year in 0..99 as
\* 1900 + year, and a month index outside 0..11 moves into the neighbouring
\* year
utcMonthStart(Y, M) ==
    LET yr == IF Y \in 0..99 THEN 1900 + Y ELSE Y
    IN  IF M - 1 < 0 THEN [y |-> yr - 1, m0 |-> M - 1 + 12]
        ELSE IF M - 1 > 11 THEN [y |-> yr + 1, m0 |-> M - 1 - 12]
        ELSE [y |-> yr, m0 |-> M - 1]

\* the loop of agent/route.ts:317-322: for i = 1..31, setUTCDate(i), stop
\* when the month is no longer M-1, collect the days that are Saturdays
saturdaysOf(Y, M) ==
    LET b == utcMonthStart(Y, M)
    IN  IF b.m0 # M - 1 THEN <<>>
        ELSE SelectSeq([i \in 1..31 |-> i],
                       LAMBDA i : i <= daysInMonth(b.y, b.m0 + 1) /\ getUTCDay(b.y, b.m0 + 1, i) = 6)

\* const day = saturdays[1] ?? saturdays[0] ?? 1
startDayOf(saturdays) ==
    IF Len(saturdays) >= 2 THEN saturdays[2]
    ELSE IF Len(saturdays) >= 1 THEN saturdays[1]
    ELSE 1

\* agent/route.ts:310-329 (part_001:305-324): the start date of a request
\* with body.startDate and body.month given as <<>> (absent) or <<value>>;
\* a month is the pair <<Y, M>> of a string that matches /^\d{4}-\d{2}$/
startDateOf(body) ==
    IF body.startDate # <<>> THEN Value(body.startDate[1])
    ELSE IF body.month # <<>>
         THEN LET Y == body.month[1][1]
                  M == body.month[1][2]
              IN  Value([y |-> Y, m |-> M, d |-> startDayOf(saturdaysOf(Y, M))])
         ELSE Thrown("Fornisci month (YYYY-MM) oppure startDate (YYYY-MM-DD)")

-----------------------------------------------------------------------------
(* Specification SpecDates: one of the date computations on one input      *)

DateOps == {"seasonalFactor", "nights", "planNights", "startDate"}

\* body.month and body.startDate
StartBodies ==
    [month : Optional(Years \X MonthNumbers), startDate : Optional(StartDates)]

\* departDate and returnDate as day numbers; the offset changes only
\* between different days
PlanDates ==
    { d \in [from : DayValues, to : DayValues, shift : {-1, 0, 1}] :
          d.from = d.to => d.shift = 0 }

DateInputs(op) ==
    CASE op = "seasonalFactor" -> (1..12) \X (1..12)
      [] op = "nights" -> [variant : Variants, nights : Optional(NightsGiven)]
      [] op = "planNights" -> PlanDates
      [] op = "startDate" -> StartBodies

DatesIdle ==
    /\ dt_op = "none"
    /\ dt_in = <<>>
    /\ dt_out = <<>>
    /\ dt_pc = "idle"

DatesStart ==
    /\ dt_op \in DateOps
    /\ dt_in \in DateInputs(dt_op)
    /\ dt_out = <<>>
    /\ dt_pc = "call"

\* seasonalFactor(month) for the months of two start dates
ApplySeasonalFactor ==
    /\ dt_pc = "call"
    /\ dt_op = "seasonalFactor"
    /\ dt_out' = << seasonalFactor(dt_in[1]), seasonalFactor(dt_in[2]) >>
    /\ dt_pc' = "returned"
    /\ UNCHANGED <<dt_op, dt_in>>
    /\ UNCHANGED <<scoreVars, pickVars, suggestVars, planVars, tokenVars, calendarVars, lodgingVars, limitVars>>

\* const nights = Math.max(1, Number(body.nights || 14))
ApplyNights ==
    /\ dt_pc = "call"
    /\ dt_op = "nights"
    /\ dt_out' = [kind |-> "nights", nights |-> nightsOf(dt_in.variant, dt_in)]
    /\ dt_pc' = "returned"
    /\ UNCHANGED <<dt_op, dt_in>>
    /\ UNCHANGED <<scoreVars, pickVars, suggestVars, planVars, tokenVars, calendarVars, lodgingVars, limitVars>>

\* the date check of the plan handlers and the nights of the response
ApplyPlanNights ==
    /\ dt_pc = "call"
    /\ dt_op = "planNights"
    /\ dt_out' = planNights(dt_in)
    /\ dt_pc' = "returned"
    /\ UNCHANGED <<dt_op, dt_in>>
    /\ UNCHANGED <<scoreVars, pickVars, suggestVars, planVars, tokenVars, calendarVars, lodgingVars, limitVars>>

\* the start date of a multi-destination request
ApplyStartDate ==
    /\ dt_pc = "call"
    /\ dt_op = "startDate"
    /\ dt_out' = startDateOf(dt_in)
    /\ dt_pc' = "returned"
    /\ UNCHANGED <<dt_op, dt_in>>
    /\ UNCHANGED <<scoreVars, pickVars, suggestVars, planVars, tokenVars, calendarVars, lodgingVars, limitVars>>

DatesNext ==
    \/ ApplySeasonalFactor
    \/ ApplyNights
    \/ ApplyPlanNights
    \/ ApplyStartDate

-----------------------------------------------------------------------------
(* C21: the seasonal factor is strictly highest for August, strictly lower *)
(* for July, strictly lower again and equal for June and September, and    *)
(* strictly lowest and equal for the eight other months.                   *)
C21_SeasonalFactorTiers ==
    (dt_op = "seasonalFactor" /\ dt_pc = "returned") =>
        /\ (seasonTier(dt_in[1]) < seasonTier(dt_in[2])) <=> (dt_out[1] < dt_out[2])
        /\ (seasonTier(dt_in[1]) = seasonTier(dt_in[2])) <=> (dt_out[1] = dt_out[2])

\* July against August: the factor of July is the lower one
C21_Witness ==
    /\ dt_op = "seasonalFactor"
    /\ dt_pc = "returned"
    /\ dt_in = <<7, 8>>
    /\ dt_out[1] < dt_out[2]

(* C22: every proposal or plan returned has a nights count of at least 1, *)
(* whether the nights are given in the request or derived from a return    *)
(* date that is after the departure date.                                  *)
C22_NightsAtLeastOne ==
    (dt_pc = "returned" /\ dt_op \in {"nights", "planNights"} /\ dt_out.kind = "nights") =>
        dt_out.nights >= 1

\* a request that asks for a negative number of nights
C22_Witness ==
    /\ dt_pc = "returned"
    /\ dt_op = "nights"
    /\ dt_in.nights # <<>>
    /\ dt_in.nights[1] < 0
    /\ dt_out.nights = 1

-----------------------------------------------------------------------------
(* Lodging: amadeusHotels and pickBestLodging (plan/route.ts:201-250 and   *)
(* 312-327; part_003:257-327 and 387-390), with the handler's reading of   *)
(* body.maxNight.                                                          *)

\* const maxPerNight = body.maxNight ? Number(body.maxNight) : undefined             (plan/route.ts:338)
\* const maxPerNight = body.maxNight !== undefined ? Number(body.maxNight) : undefined   (part_003:400-403)
maxPerNightOf(handler, given) ==
    IF handler = "plan"
    THEN (IF given # <<>> /\ given[1] # 0 THEN given ELSE <<>>)
    ELSE given

\* the LodgingOption built from one hotel of the answer
\*   plan/route.ts:237-244  rating: Number(hotel.rating || 4.2), reviews: rating > 0 ? 300 : 0
\*   part_003:311-323       pricePerNight: Math.max(1, ...), rating: 4.2, reviews: 0
lodgingOf(handler, h) ==
    IF handler = "plan"
    THEN [name |-> h.name, pricePerNight |-> h.price,
          rating10 |-> IF h.rating10 # 0 THEN h.rating10 ELSE 42,
          reviews |-> IF h.rating10 > 0 THEN 300 ELSE 0]
    ELSE [name |-> h.name, pricePerNight |-> Max(1, h.price), rating10 |-> 42, reviews |-> 0]

\* if (maxPerNight && perNight > maxPerNight) continue                 (plan/route.ts:236)
\* if (maxPerNight !== undefined && perNight > maxPerNight) continue   (part_003:313)
skippedByMax(handler, max, perNight) ==
    IF handler = "plan"
    THEN max # <<>> /\ max[1] # 0 /\ perNight > max[1]
    ELSE max # <<>> /\ perNight > max[1]

\* amadeusHotels: the options within the maximum, best first, or a throw
amadeusHotels(handler, max, answer) ==
    IF ~answer.ok THEN Thrown("Hotel search failed")
    ELSE LET all == SetToSeq({ lodgingOf(handler, h) : h \in answer.data })
             out == SelectSeq(all, LAMBDA x : ~skippedByMax(handler, max, x.pricePerNight))
         IN  IF out = <<>> THEN Thrown("No hotels found")
             ELSE Value(sortedByScore(out, scoreMap(out, "scoreLodging")))

\* the mock list of pickBestLodging (plan/route.ts:321-324)
mockLodging ==
    << [name |-> "B&B Panoramico", pricePerNight |-> 85, rating10 |-> 47, reviews |-> 650],
       [name |-> "Hotel Centro Storico", pricePerNight |-> 110, rating10 |-> 45, reviews |-> 1800] >>

\* .filter(x => !maxPerNight || x.pricePerNight <= maxPerNight)
mockWithinMax(max) ==
    SelectSeq(mockLodging, LAMBDA x : max = <<>> \/ max[1] = 0 \/ x.pricePerNight <= max[1])

-----------------------------------------------------------------------------
(* Specification SpecLodging: one request's lodging selection              *)

LodgingHandlers == {"plan", "planHotels"}

\* hotels the search may return, with the nightly price and the rating the
\* provider gives (0: none)
Hotels ==
    { [name |-> "H1", price |-> 70, rating10 |-> 0],
      [name |-> "H2", price |-> 95, rating10 |-> 40],
      [name |-> "H3", price |-> 130, rating10 |-> 50] }

LodgingIdle ==
    /\ lg_handler = "none"
    /\ lg_body = <<>>
    /\ lg_env = <<>>
    /\ lg_answer = [ok |-> FALSE, data |-> {}]
    /\ lg_max = <<>>
    /\ lg_source = "none"
    /\ lg_list = <<>>
    /\ lg_ret = Pending
    /\ lg_pc = "idle"

\* part_003 has no key check in pickBestLodging
LodgingStart ==
    /\ lg_handler \in LodgingHandlers
    /\ lg_body \in [maxNight : Optional(MaxPerNightValues)]
    /\ lg_env \in [amadeus : IF lg_handler = "plan" THEN BOOLEAN ELSE {TRUE}]
    /\ lg_answer \in {[ok |-> FALSE, data |-> {}]} \cup { [ok |-> TRUE, data |-> S] : S \in SUBSET Hotels }
    /\ lg_max = <<>>
    /\ lg_source = "none"
    /\ lg_list = <<>>
    /\ lg_ret = Pending
    /\ lg_pc = "start"

\* the handler reads body.maxNight
LodgingParse ==
    /\ lg_pc = "start"
    /\ lg_max' = maxPerNightOf(lg_handler, lg_body.maxNight)
    /\ lg_pc' = "search"
    /\ UNCHANGED <<lg_handler, lg_body, lg_env, lg_answer, lg_source, lg_list, lg_ret>>
    /\ UNCHANGED <<scoreVars, pickVars, suggestVars, planVars, tokenVars, calendarVars, dateVars, limitVars>>

\* pickBestLodging calls amadeusHotels when the keys are there; a throw is
\* swallowed in plan/route.ts:318 and reaches the handler in part_003
LodgingSearch ==
    /\ lg_pc = "search"
    /\ IF ~lg_env.amadeus
       THEN /\ lg_pc' = "mock"
            /\ UNCHANGED <<lg_source, lg_list, lg_ret>>
       ELSE LET found == amadeusHotels(lg_handler, lg_max, lg_answer)
            IN  IF found.kind = "value"
                THEN /\ lg_list' = found.val
                     /\ lg_source' = "provider"
                     /\ lg_pc' = "pick"
                     /\ UNCHANGED lg_ret
                ELSE IF lg_handler = "plan"
                     THEN /\ lg_pc' = "mock"
                          /\ UNCHANGED <<lg_source, lg_list, lg_ret>>
                     ELSE /\ lg_ret' = found
                          /\ lg_pc' = "thrown"
                          /\ UNCHANGED <<lg_source, lg_list>>
    /\ UNCHANGED <<lg_handler, lg_body, lg_env, lg_answer, lg_max>>
    /\ UNCHANGED <<scoreVars, pickVars, suggestVars, planVars, tokenVars, calendarVars, dateVars, limitVars>>

\* return pickBest(list, scoreLodging)
LodgingPick ==
    /\ lg_pc = "pick"
    /\ lg_ret' = pickBest(lg_list, scoreMap(lg_list, "scoreLodging"))
    /\ lg_pc' = "returned"
    /\ UNCHANGED <<lg_handler, lg_body, lg_env, lg_answer, lg_max, lg_source, lg_list>>
    /\ UNCHANGED <<scoreVars, pickVars, suggestVars, planVars, tokenVars, calendarVars, dateVars, limitVars>>

\* the mock fallback of plan/route.ts:320-326
LodgingMock ==
    /\ lg_pc = "mock"
    /\ LET mock == mockWithinMax(lg_max)
       IN  /\ lg_list' = mock
           /\ lg_source' = "mock"
           /\ IF mock = <<>>
              THEN /\ lg_ret' = Thrown("Nessuna sistemazione trovata")
                   /\ lg_pc' = "thrown"
              ELSE /\ lg_ret' = pickBest(mock, scoreMap(mock, "scoreLodging"))
                   /\ lg_pc' = "returned"
    /\ UNCHANGED <<lg_handler, lg_body, lg_env, lg_answer, lg_max>>
    /\ UNCHANGED <<scoreVars, pickVars, suggestVars, planVars, tokenVars, calendarVars, dateVars, limitVars>>

LodgingNext ==
    \/ LodgingParse
    \/ LodgingSearch
    \/ LodgingPick
    \/ LodgingMock

-----------------------------------------------------------------------------
(* C23: under rating weight 0.7 and price weight 0.3 the lodging {85 per   *)
(* night, rating 4.7, 650 reviews} scores strictly higher than {110 per    *)
(* night, rating 4.5, 1800 reviews}, and the mock fallback of              *)
(* pickBestLodging returns the first whenever both pass the maximum.       *)
C23_MockFallbackPrefersFirst ==
    /\ scoreLodging([pricePerNight |-> 85, rating10 |-> 47, reviews |-> 650])
          > scoreLodging([pricePerNight |-> 110, rating10 |-> 45, reviews |-> 1800])
    /\ (lg_pc = "returned" /\ lg_source = "mock" /\ Len(lg_list) = 2) =>
          /\ lg_ret.kind = "value"
          /\ lg_ret.val.pricePerNight = 85
          /\ lg_ret.val.rating10 = 47
          /\ lg_ret.val.reviews = 650

\* the hotel search failed, a maximum of 120 lets both mock lodgings pass,
\* and the fallback has returned
C23_Witness ==
    /\ lg_pc = "returned"
    /\ lg_source = "mock"
    /\ ~lg_answer.ok
    /\ lg_max = <<120>>
    /\ Len(lg_list) = 2
    /\ lg_ret.val.name = "B&B Panoramico"

(* C28: when the request gives a maximum price per night, the lodging      *)
(* returned by pickBestLodging, from the provider or from the mock         *)
(* fallback, has pricePerNight at most that maximum; when no candidate     *)
(* satisfies it the call fails instead of returning a lodging above it.    *)
C28_LodgingWithinMaximum ==
    (lg_pc = "returned" /\ lg_body.maxNight # <<>>) =>
        /\ lg_ret.kind = "value"
        /\ lg_ret.val.pricePerNight <= lg_body.maxNight[1]

-----------------------------------------------------------------------------
(* Candidate limits: the list of candidates and the loop over it           *)
(* (part_001:336-345 and 411-424, agent/route.ts:286-296 and 338-403).     *)

\* the items of the answer: item i of the list, with a price that is not a
\* finite number (-1) at one position
rawItem(i) == [id |-> i, price |-> IF i = 3 THEN -1 ELSE ((i * 5) % 13) + 1]

rawList(n) == [i \in 1..n |-> rawItem(i)]

\* .filter(x => x.dest && Number.isFinite(x.price))   (part_001:338)
\* .filter(p => ... Number.isFinite(p.expected_lodging_per_night_eur))   (agent/route.ts:289-292)
validItems(raw) == SelectSeq(raw, LAMBDA x : x.price >= 0)

\* (a, b) => a.price - b.price
priceAscending(arr) ==
    [p \in Range(arr) \X Range(arr) |-> p[1].price - p[2].price]

\* the candidates of part_001 without the sort
inspirationCandidatesUnsorted(raw) == slice0(validItems(raw), InspirationLimit)

\* part_001:336-340: map, filter, sort by price, slice(0, 12)
inspirationCandidates(raw) ==
    slice0(arraySort(validItems(raw), priceAscending(validItems(raw))), InspirationLimit)

\* agent/route.ts:289-293: filter, slice(0, 5)
llmCandidates(raw) == slice0(validItems(raw), LlmPickLimit)

\* the proposal assembled for a candidate (its total does not follow the
\* candidate's price: lodging is part of it)
proposalFor(item) ==
    [id |-> item.id, price |-> item.price,
     totalEstimate |-> 100 + 10 * ((item.id * 3) % 7),
     underBudget |-> (100 + 10 * ((item.id * 3) % 7)) <= 130,
     web |-> <<>>]

-----------------------------------------------------------------------------
(* Specification SpecLimit: one request, from the candidate list to the    *)
(* response                                                                *)

LimitIdle ==
    /\ lm_variant = "none"
    /\ lm_raw = <<>>
    /\ lm_cands = <<>>
    /\ lm_i = 0
    /\ lm_tried = <<>>
    /\ lm_props = <<>>
    /\ lm_resp = NoResponse
    /\ lm_pc = "idle"

LimitStart ==
    /\ lm_variant \in Variants
    /\ lm_raw \in { rawList(n) : n \in 0..MaxItems }
    /\ lm_cands = <<>>
    /\ lm_i = 0
    /\ lm_tried = <<>>
    /\ lm_props = <<>>
    /\ lm_resp = NoResponse
    /\ lm_pc = "start"

\* the candidate list; llmPickDestinations throws without a valid pick
LimitCandidates ==
    /\ lm_pc = "start"
    /\ IF lm_variant = "agent"
       THEN IF llmCandidates(lm_raw) = <<>>
            THEN /\ lm_resp' = [status |-> 500]
                 /\ lm_pc' = "done"
                 /\ UNCHANGED lm_cands
            ELSE /\ lm_cands' = llmCandidates(lm_raw)
                 /\ lm_pc' = "loop"
                 /\ UNCHANGED lm_resp
       ELSE /\ lm_cands' = inspirationCandidates(lm_raw)
            /\ lm_pc' = "loop"
            /\ UNCHANGED lm_resp
    /\ UNCHANGED <<lm_variant, lm_raw, lm_i, lm_tried, lm_props>>
    /\ UNCHANGED <<scoreVars, pickVars, suggestVars, planVars, tokenVars, calendarVars, dateVars, lodgingVars>>

\* one iteration: for (const item of sorted) { if (proposals.length >= 5) break; try {...} catch { continue } }
\* (agent/route.ts:339-390 has neither the break nor the try)
LimitTry ==
    /\ lm_pc = "loop"
    /\ lm_i < Len(lm_cands)
    /\ ~(lm_variant = "suggest" /\ Len(lm_props) >= ProposalLimit)
    /\ LET item == lm_cands[lm_i + 1]
       IN  /\ lm_tried' = Append(lm_tried, [item |-> item, held |-> Len(lm_props)])
           /\ \E outcome \in {"found", "miss", "throw"} :
                 CASE outcome = "found" ->
                         /\ lm_props' = Append(lm_props, proposalFor(item))
                         /\ lm_i' = lm_i + 1
                         /\ UNCHANGED <<lm_resp, lm_pc>>
                   [] outcome = "miss" ->
                         /\ lm_i' = lm_i + 1
                         /\ UNCHANGED <<lm_props, lm_resp, lm_pc>>
                   [] outcome = "throw" ->
                         IF lm_variant = "suggest"
                         THEN /\ lm_i' = lm_i + 1
                              /\ UNCHANGED <<lm_props, lm_resp, lm_pc>>
                         ELSE /\ lm_resp' = [status |-> 500]
                              /\ lm_pc' = "done"
                              /\ UNCHANGED <<lm_props, lm_i>>
    /\ UNCHANGED <<lm_variant, lm_raw, lm_cands>>
    /\ UNCHANGED <<scoreVars, pickVars, suggestVars, planVars, tokenVars, calendarVars, dateVars, lodgingVars>>

\* after the loop: 404 without proposals, else the sort and slice(0, 5)
LimitRespond ==
    /\ lm_pc = "loop"
    /\ \/ lm_i = Len(lm_cands)
       \/ (lm_variant = "suggest" /\ Len(lm_props) >= ProposalLimit)
    /\ IF lm_props = <<>>
       THEN /\ lm_resp' = [status |-> 404]
            /\ UNCHANGED lm_props
       ELSE /\ lm_props' = rankProposals(lm_variant, lm_props)
            /\ lm_resp' = [status |-> 200,
                           proposals |-> slice0(rankProposals(lm_variant, lm_props), ProposalLimit)]
    /\ lm_pc' = "done"
    /\ UNCHANGED <<lm_variant, lm_raw, lm_cands, lm_i, lm_tried>>
    /\ UNCHANGED <<scoreVars, pickVars, suggestVars, planVars, tokenVars, calendarVars, dateVars, lodgingVars>>

LimitNext ==
    \/ LimitCandidates
    \/ LimitTry
    \/ LimitRespond

\* the items of the answer that were not tried
untried == { x \in Range(lm_raw) : \A k \in 1..Len(lm_tried) : lm_tried[k].item # x }

-----------------------------------------------------------------------------
(* C26: a successful multi-destination response holds between 1 and 5      *)
(* proposals, which are the first (at most 5) elements of the ranked list  *)
(* in ranked order; in the inspiration flow candidates are tried in        *)
(* ascending inspiration price, at most 12 are tried, and none is tried    *)
(* once 5 proposals have been assembled.                                   *)
C26_ProposalAndCandidateLimits ==
    /\ (lm_pc = "done" /\ lm_resp.status = 200) =>
          /\ Len(lm_resp.proposals) \in 1..5
          /\ Len(lm_resp.proposals) = (IF Len(lm_props) < 5 THEN Len(lm_props) ELSE 5)
          /\ \A k \in 1..Len(lm_resp.proposals) : lm_resp.proposals[k] = lm_props[k]
          /\ \A j, k \in 1..Len(lm_props) :
                j < k => /\ ~(~lm_props[j].underBudget /\ lm_props[k].underBudget)
                         /\ (lm_props[j].underBudget = lm_props[k].underBudget
                                => lm_props[j].totalEstimate <= lm_props[k].totalEstimate)
    /\ lm_variant = "suggest" =>
          /\ Len(lm_tried) <= 12
          /\ \A j, k \in 1..Len(lm_tried) : j < k => lm_tried[j].item.price <= lm_tried[k].item.price
          /\ \A k \in 1..Len(lm_tried) :
                /\ lm_tried[k].held < 5
                /\ lm_tried[k].item.price >= 0
                /\ lm_pc = "done" => \A x \in untried : x.price >= 0 => lm_tried[k].item.price <= x.price

\* the inspiration answer held more than 12 priced items, all 12 cheapest
\* were tried and gave fewer than 5 proposals
C26_Witness ==
    /\ lm_variant = "suggest"
    /\ lm_pc = "done"
    /\ lm_resp.status = 200
    /\ Len(validItems(lm_raw)) > 12
    /\ Len(lm_tried) = 12
    /\ Len(lm_resp.proposals) = 4

(* C29: when the request gives only a month and no start date, the         *)
(* derived start date is the second Saturday of that month: its day number *)
(* is in 8..14 and its weekday is Saturday; when a start date is given it  *)
(* is used unchanged and the month is ignored. (Months are 01..12.)        *)
C29_SecondSaturday ==
    (dt_op = "startDate" /\ dt_pc = "returned") =>
        /\ (dt_in.startDate = <<>> /\ dt_in.month # <<>> /\ dt_in.month[1][2] \in 1..12) =>
               /\ dt_out.kind = "value"
               /\ dt_out.val.y = dt_in.month[1][1]
               /\ dt_out.val.m = dt_in.month[1][2]
               /\ dt_out.val.d \in 8..14
               /\ (daysFromEpoch(dt_out.val.y, dt_out.val.m, dt_out.val.d) + 4) % 7 = 6
        /\ dt_in.startDate # <<>> =>
               /\ dt_out.kind = "value"
               /\ dt_out.val = dt_in.startDate[1]

-----------------------------------------------------------------------------
(* Specifications *)

ScoreInit == ScoreStart /\ PickIdle /\ SuggestIdle /\ PlanIdle /\ TokenIdle /\ CalendarIdle /\ DatesIdle /\ LodgingIdle /\ LimitIdle
SpecScore == ScoreInit /\ [][ScoreNext]_vars

SelectInit == PickStart /\ ScoreIdle /\ SuggestIdle /\ PlanIdle /\ TokenIdle /\ CalendarIdle /\ DatesIdle /\ LodgingIdle /\ LimitIdle
SpecSelect == SelectInit /\ [][SelectNext]_vars

SuggestInit == SuggestStart /\ ScoreIdle /\ PickIdle /\ PlanIdle /\ TokenIdle /\ CalendarIdle /\ DatesIdle /\ LodgingIdle /\ LimitIdle
SpecSuggest == SuggestInit /\ [][SuggestNext]_vars

PlanInit == PlanStart /\ ScoreIdle /\ PickIdle /\ SuggestIdle /\ TokenIdle /\ CalendarIdle /\ DatesIdle /\ LodgingIdle /\ LimitIdle
SpecPlan == PlanInit /\ [][PlanNext]_vars

TokenInit == TokenStart /\ ScoreIdle /\ PickIdle /\ SuggestIdle /\ PlanIdle /\ CalendarIdle /\ DatesIdle /\ LodgingIdle /\ LimitIdle
SpecToken == TokenInit /\ [][TokenNext]_vars

CalendarInit == CalendarStart /\ ScoreIdle /\ PickIdle /\ SuggestIdle /\ PlanIdle /\ TokenIdle /\ DatesIdle /\ LodgingIdle /\ LimitIdle
SpecCalendar == CalendarInit /\ [][CalendarNext]_vars

DatesInit == DatesStart /\ ScoreIdle /\ PickIdle /\ SuggestIdle /\ PlanIdle /\ TokenIdle /\ CalendarIdle /\ LodgingIdle /\ LimitIdle
SpecDates == DatesInit /\ [][DatesNext]_vars

LodgingInit == LodgingStart /\ ScoreIdle /\ PickIdle /\ SuggestIdle /\ PlanIdle /\ TokenIdle /\ CalendarIdle /\ DatesIdle /\ LimitIdle
SpecLodging == LodgingInit /\ [][LodgingNext]_vars

LimitInit == LimitStart /\ ScoreIdle /\ PickIdle /\ SuggestIdle /\ PlanIdle /\ TokenIdle /\ CalendarIdle /\ DatesIdle /\ LodgingIdle
SpecLimit == LimitInit /\ [][LimitNext]_vars

=============================================================================
